---------------------------- MODULE Spec2Model ----------------------------
(***************************************************************************)
(* A model of fontTools.misc.bezierTools (Lib/fontTools/misc/bezierTools.py)*)
(*                                                                         *)
(* The library is a collection of pure functions.  Each specification      *)
(* below draws the arguments of a call from a bounded set (Init), and has  *)
(* one action per public operation that applies the operation to the       *)
(* arguments and records what the call returned or raised.                 *)
(*                                                                         *)
(* Numbers.  Python floats are modelled by exact rationals <<n, d>> in     *)
(* lowest terms (d > 0).  On the inputs the specifications draw (small     *)
(* integers and dyadic fractions) every float operation of the code is     *)
(* exact, so the rational result is the float result.  sqrt is modelled    *)
(* on rational squares only, and the trigonometric root formulas of        *)
(* solveCubic by the real roots they compute, on cubics whose real roots   *)
(* are rational; the input sets are restricted accordingly.                *)
(***************************************************************************)
EXTENDS Integers, Sequences, FiniteSets, TLC

VARIABLES op, seg1, seg2, ts, result

vars == <<op, seg1, seg2, ts, result>>

-----------------------------------------------------------------------------
(* Exact rational arithmetic standing for float arithmetic.                *)

RECURSIVE Gcd(_, _)
Gcd(a, b) == IF b = 0 THEN a ELSE Gcd(b, a % b)

IAbs(n) == IF n < 0 THEN -n ELSE n

\* n/d in lowest terms with a positive denominator (d # 0).
Rat(n, d) ==
    LET g == Gcd(IAbs(n), IAbs(d))
        s == IF d < 0 THEN -1 ELSE 1
    IN  <<(s * n) \div g, (s * d) \div g>>

I(n) == <<n, 1>>

Zero == I(0)
One == I(1)
Half == Rat(1, 2)

\* sums and products are formed over the least common denominator and
\* after cancelling, which keeps the intermediate integers small
RAdd(a, b) ==
    LET g == Gcd(a[2], b[2])
    IN  Rat(a[1] * (b[2] \div g) + b[1] * (a[2] \div g), (a[2] \div g) * b[2])
RNeg(a) == <<-a[1], a[2]>>
RSub(a, b) == RAdd(a, RNeg(b))
RMul(a, b) ==
    LET g1 == Gcd(IAbs(a[1]), b[2])
        g2 == Gcd(IAbs(b[1]), a[2])
    IN  Rat((a[1] \div g1) * (b[1] \div g2), (a[2] \div g2) * (b[2] \div g1))
\* b # 0: every division of the code that is modelled is guarded.
RDiv(a, b) == RMul(a, Rat(b[2], b[1]))
RAbs(a) == <<IAbs(a[1]), a[2]>>
RLt(a, b) ==
    LET g == Gcd(a[2], b[2])
    IN  a[1] * (b[2] \div g) < b[1] * (a[2] \div g)
RLe(a, b) ==
    LET g == Gcd(a[2], b[2])
    IN  a[1] * (b[2] \div g) <= b[1] * (a[2] \div g)
RMin(a, b) == IF RLe(a, b) THEN a ELSE b
RMax(a, b) == IF RLe(a, b) THEN b ELSE a

\* ceil(n / k) for n >= 0, k > 0
CeilDiv(n, k) == (n + k - 1) \div k

\* epsilon = 1e-10 is 1/(EpsRoot * EpsRoot); epsilonDigits = 6.
EpsRoot == 100000
epsilonDigits == 6

\* a < epsilon for a rational a >= 0:  n/d < 1e-10  <=>  n * 1e10 < d,
\* evaluated without leaving 32 bits.
LtEpsilon(a) == a[1] < CeilDiv(CeilDiv(a[2], EpsRoot), EpsRoot)

\* a <= epsilon * .5:  a <= 0, or 2a = n/d with n * 1e10 <= d
LeHalfEpsilon(a) ==
    \/ a[1] <= 0
    \/ LET b == Rat(2 * a[1], a[2])
       IN  b[1] <= (b[2] \div EpsRoot) \div EpsRoot

\* 1/rel_tol of math.isclose (rel_tol = 1e-09, abs_tol = 0.0)
RelTolInv == 1000000000

\* math.isclose(a, b): abs(a - b) <= rel_tol * max(abs(a), abs(b))
isclose(a, b) ==
    LET diff == RAbs(RSub(a, b))
        big == RMax(RAbs(a), RAbs(b))
    IN  diff[1] * big[2] <= (big[1] * diff[2]) \div RelTolInv

-----------------------------------------------------------------------------
(* Conversion routines for points to parameters and vice versa.            *)

calcQuadraticParameters(pt1, pt2, pt3) ==
    LET cx == pt1[1]
        cy == pt1[2]
        bx == RMul(RSub(pt2[1], cx), I(2))
        by == RMul(RSub(pt2[2], cy), I(2))
        ax == RSub(RSub(pt3[1], cx), bx)
        ay == RSub(RSub(pt3[2], cy), by)
    IN  <<<<ax, ay>>, <<bx, by>>, <<cx, cy>>>>

calcCubicParameters(pt1, pt2, pt3, pt4) ==
    LET dx == pt1[1]
        dy == pt1[2]
        cx == RMul(RSub(pt2[1], dx), I(3))
        cy == RMul(RSub(pt2[2], dy), I(3))
        bx == RSub(RMul(RSub(pt3[1], pt2[1]), I(3)), cx)
        by == RSub(RMul(RSub(pt3[2], pt2[2]), I(3)), cy)
        ax == RSub(RSub(RSub(pt4[1], dx), cx), bx)
        ay == RSub(RSub(RSub(pt4[2], dy), cy), by)
    IN  <<<<ax, ay>>, <<bx, by>>, <<cx, cy>>, <<dx, dy>>>>

\* a plausible slip: the control point without the start point added
calcQuadraticPoints_noOffset(a, b, c) ==
    <<c,
      <<RMul(b[1], Half), RMul(b[2], Half)>>,
      <<RAdd(RAdd(a[1], b[1]), c[1]), RAdd(RAdd(a[2], b[2]), c[2])>>>>

calcQuadraticPoints(a, b, c) ==
    LET x1 == c[1]
        y1 == c[2]
        x2 == RAdd(RMul(b[1], Half), c[1])
        y2 == RAdd(RMul(b[2], Half), c[2])
        x3 == RAdd(RAdd(a[1], b[1]), c[1])
        y3 == RAdd(RAdd(a[2], b[2]), c[2])
    IN  <<<<x1, y1>>, <<x2, y2>>, <<x3, y3>>>>

calcCubicPoints(a, b, c, d) ==
    LET x1 == d[1]
        y1 == d[2]
        x2 == RAdd(RDiv(c[1], I(3)), d[1])
        y2 == RAdd(RDiv(c[2], I(3)), d[2])
        x3 == RAdd(RDiv(RAdd(b[1], c[1]), I(3)), x2)
        y3 == RAdd(RDiv(RAdd(b[2], c[2]), I(3)), y2)
        x4 == RAdd(RAdd(RAdd(a[1], d[1]), c[1]), b[1])
        y4 == RAdd(RAdd(RAdd(a[2], d[2]), c[2]), b[2])
    IN  <<<<x1, y1>>, <<x2, y2>>, <<x3, y3>>, <<x4, y4>>>>

-----------------------------------------------------------------------------
(* Point at time.                                                          *)

linePointAtT(pt1, pt2, t) ==
    LET u == RSub(One, t)
    IN  <<RAdd(RMul(pt1[1], u), RMul(pt2[1], t)),
          RAdd(RMul(pt1[2], u), RMul(pt2[2], t))>>

quadraticPointAtT(pt1, pt2, pt3, t) ==
    LET u == RSub(One, t)
        k1 == RMul(u, u)
        k2 == RMul(RMul(I(2), u), t)
        k3 == RMul(t, t)
    IN  <<RAdd(RAdd(RMul(k1, pt1[1]), RMul(k2, pt2[1])), RMul(k3, pt3[1])),
          RAdd(RAdd(RMul(k1, pt1[2]), RMul(k2, pt2[2])), RMul(k3, pt3[2]))>>

cubicPointAtT(pt1, pt2, pt3, pt4, t) ==
    LET u == RSub(One, t)
        k1 == RMul(RMul(u, u), u)
        k2 == RMul(RMul(RMul(I(3), u), u), t)
        k3 == RMul(RMul(RMul(I(3), u), t), t)
        k4 == RMul(RMul(t, t), t)
    IN  <<RAdd(RAdd(RAdd(RMul(k1, pt1[1]), RMul(k2, pt2[1])),
                    RMul(k3, pt3[1])), RMul(k4, pt4[1])),
          RAdd(RAdd(RAdd(RMul(k1, pt1[2]), RMul(k2, pt2[2])),
                    RMul(k3, pt3[2])), RMul(k4, pt4[2]))>>

\* What a call returned, or the exception it raised.
Returned(v) == [kind |-> "ok", val |-> v]
Raised(e) == [kind |-> "raise", exc |-> e]

segmentPointAtT(seg, t) ==
    IF Len(seg) = 2 THEN Returned(linePointAtT(seg[1], seg[2], t))
    ELSE IF Len(seg) = 3
         THEN Returned(quadraticPointAtT(seg[1], seg[2], seg[3], t))
    ELSE IF Len(seg) = 4
         THEN Returned(cubicPointAtT(seg[1], seg[2], seg[3], seg[4], t))
    ELSE Raised("ValueError")

\* eval(S, t) for a segment of 2, 3 or 4 points
PointAt(seg, t) == segmentPointAtT(seg, t).val

-----------------------------------------------------------------------------
(* Basis conversion calls.                                                 *)

MaxBasisX == 2
MaxBasisY == 1

BasisPts == {<<I(x), I(y)>> : x \in -1..MaxBasisX, y \in 0..MaxBasisY}

InitBasis ==
    /\ op = "none"
    /\ seg1 \in [1..3 -> BasisPts] \cup [1..4 -> BasisPts]
    /\ seg2 = <<>>
    /\ ts = <<>>
    /\ result = Returned(<<>>)

\* calcQuadraticParameters(pt1, pt2, pt3) on three control points
CallQuadraticParameters ==
    /\ op = "none" /\ Len(seg1) = 3
    /\ op' = "calcQuadraticParameters"
    /\ result' = Returned(calcQuadraticParameters(seg1[1], seg1[2], seg1[3]))
    /\ UNCHANGED <<seg1, seg2, ts>>

\* calcCubicParameters(pt1, pt2, pt3, pt4) on four control points
CallCubicParameters ==
    /\ op = "none" /\ Len(seg1) = 4
    /\ op' = "calcCubicParameters"
    /\ result' = Returned(calcCubicParameters(seg1[1], seg1[2], seg1[3], seg1[4]))
    /\ UNCHANGED <<seg1, seg2, ts>>

\* calcQuadraticPoints(a, b, c) on three coefficient vectors
CallQuadraticPoints ==
    /\ op = "none" /\ Len(seg1) = 3
    /\ op' = "calcQuadraticPoints"
    /\ result' = Returned(calcQuadraticPoints(seg1[1], seg1[2], seg1[3]))
    /\ UNCHANGED <<seg1, seg2, ts>>

\* calcCubicPoints(a, b, c, d) on four coefficient vectors
CallCubicPoints ==
    /\ op = "none" /\ Len(seg1) = 4
    /\ op' = "calcCubicPoints"
    /\ result' = Returned(calcCubicPoints(seg1[1], seg1[2], seg1[3], seg1[4]))
    /\ UNCHANGED <<seg1, seg2, ts>>

NextBasis ==
    \/ CallQuadraticParameters
    \/ CallCubicParameters
    \/ CallQuadraticPoints
    \/ CallCubicPoints

SpecBasis == InitBasis /\ [][NextBasis]_vars

\* C10: control points and power-basis coefficients are mutual inverses:
\* converting the points of a quadratic or cubic to coefficients and back
\* gives the points again, and converting coefficients to points and back
\* gives the coefficients again.
C10_BasisRoundTrip ==
    LET v == result.val
    IN  /\ op = "calcQuadraticParameters"
            => calcQuadraticPoints(v[1], v[2], v[3]) = seg1
        /\ op = "calcCubicParameters"
            => calcCubicPoints(v[1], v[2], v[3], v[4]) = seg1
        /\ op = "calcQuadraticPoints"
            => calcQuadraticParameters(v[1], v[2], v[3]) = seg1
        /\ op = "calcCubicPoints"
            => calcCubicParameters(v[1], v[2], v[3], v[4]) = seg1

\* a cubic with a non-zero cubic coefficient on both axes has been converted
C10_Witness ==
    /\ op = "calcCubicParameters"
    /\ result.val[1][1] # Zero /\ result.val[1][2] # Zero
    /\ result.val[2][1] # Zero
    /\ calcCubicPoints(result.val[1], result.val[2], result.val[3],
                       result.val[4]) = seg1

-----------------------------------------------------------------------------
(* Splitting at parameter values.                                          *)

\* a plausible slip: the split parameters alone, without the two ends
SplitTs_bare(tlist) == tlist

\* ts with 0.0 inserted in front and 1.0 appended
SplitTs(tlist) == <<Zero>> \o tlist \o <<One>>

\* a plausible slip: each piece parameterised from the previous split point
\* but spanning up to the end of the curve
QuadraticPiece_toEnd(a, b, c, t1, t2) ==
    LET delta == RSub(One, t1)
        delta_2 == RMul(delta, delta)
        a1x == RMul(a[1], delta_2)
        a1y == RMul(a[2], delta_2)
        b1x == RMul(RAdd(RMul(RMul(I(2), a[1]), t1), b[1]), delta)
        b1y == RMul(RAdd(RMul(RMul(I(2), a[2]), t1), b[2]), delta)
        t1_2 == RMul(t1, t1)
        c1x == RAdd(RAdd(RMul(a[1], t1_2), RMul(b[1], t1)), c[1])
        c1y == RAdd(RAdd(RMul(a[2], t1_2), RMul(b[2], t1)), c[2])
    IN  calcQuadraticPoints(<<a1x, a1y>>, <<b1x, b1y>>, <<c1x, c1y>>)

\* one iteration of the loop of _splitQuadraticAtT: the piece from t1 to t2
QuadraticPiece(a, b, c, t1, t2) ==
    LET delta == RSub(t2, t1)
        delta_2 == RMul(delta, delta)
        a1x == RMul(a[1], delta_2)
        a1y == RMul(a[2], delta_2)
        b1x == RMul(RAdd(RMul(RMul(I(2), a[1]), t1), b[1]), delta)
        b1y == RMul(RAdd(RMul(RMul(I(2), a[2]), t1), b[2]), delta)
        t1_2 == RMul(t1, t1)
        c1x == RAdd(RAdd(RMul(a[1], t1_2), RMul(b[1], t1)), c[1])
        c1y == RAdd(RAdd(RMul(a[2], t1_2), RMul(b[2], t1)), c[2])
    IN  calcQuadraticPoints(<<a1x, a1y>>, <<b1x, b1y>>, <<c1x, c1y>>)

_splitQuadraticAtT(a, b, c, tlist) ==
    LET tt == SplitTs(tlist)
    IN  [i \in 1..(Len(tt) - 1) |-> QuadraticPiece(a, b, c, tt[i], tt[i + 1])]

\* one iteration of the loop of _splitCubicAtT: the piece from t1 to t2
CubicPiece(a, b, c, d, t1, t2) ==
    LET delta == RSub(t2, t1)
        delta_2 == RMul(delta, delta)
        delta_3 == RMul(delta, delta_2)
        t1_2 == RMul(t1, t1)
        t1_3 == RMul(t1, t1_2)
        a1x == RMul(a[1], delta_3)
        a1y == RMul(a[2], delta_3)
        b1x == RMul(RAdd(RMul(RMul(I(3), a[1]), t1), b[1]), delta_2)
        b1y == RMul(RAdd(RMul(RMul(I(3), a[2]), t1), b[2]), delta_2)
        c1x == RMul(RAdd(RAdd(RMul(RMul(I(2), b[1]), t1), c[1]),
                         RMul(RMul(I(3), a[1]), t1_2)), delta)
        c1y == RMul(RAdd(RAdd(RMul(RMul(I(2), b[2]), t1), c[2]),
                         RMul(RMul(I(3), a[2]), t1_2)), delta)
        d1x == RAdd(RAdd(RAdd(RMul(a[1], t1_3), RMul(b[1], t1_2)),
                         RMul(c[1], t1)), d[1])
        d1y == RAdd(RAdd(RAdd(RMul(a[2], t1_3), RMul(b[2], t1_2)),
                         RMul(c[2], t1)), d[2])
    IN  calcCubicPoints(<<a1x, a1y>>, <<b1x, b1y>>, <<c1x, c1y>>, <<d1x, d1y>>)

_splitCubicAtT(a, b, c, d, tlist) ==
    LET tt == SplitTs(tlist)
    IN  [i \in 1..(Len(tt) - 1) |-> CubicPiece(a, b, c, d, tt[i], tt[i + 1])]

splitQuadraticAtT(pt1, pt2, pt3, tlist) ==
    LET p == calcQuadraticParameters(pt1, pt2, pt3)
    IN  _splitQuadraticAtT(p[1], p[2], p[3], tlist)

splitCubicAtT(pt1, pt2, pt3, pt4, tlist) ==
    LET p == calcCubicParameters(pt1, pt2, pt3, pt4)
    IN  _splitCubicAtT(p[1], p[2], p[3], p[4], tlist)

\* Arguments of the split calls: control points on a small grid, and up to
\* MaxTs split parameters, in any order, repeated, inside or outside [0, 1].
MaxSplitX == 1
MaxTs == 2

SplitPts == {<<I(x), I(y)>> : x \in 0..MaxSplitX, y \in {0, 1}}
SplitStarts == {<<I(0), I(0)>>, <<I(1), I(1)>>}
SplitCurves ==
    {<<p0>> \o rest : p0 \in SplitStarts,
                      rest \in [1..2 -> SplitPts] \cup [1..3 -> SplitPts]}
SplitTVals == {Zero, Rat(1, 4), Half, Rat(3, 2)}
SplitTLists == UNION {[1..k -> SplitTVals] : k \in 0..MaxTs}

InitSplit ==
    /\ op = "none"
    /\ seg1 \in SplitCurves
    /\ seg2 = <<>>
    /\ ts \in SplitTLists
    /\ result = Returned(<<>>)

\* splitQuadraticAtT(pt1, pt2, pt3, *ts)
CallSplitQuadraticAtT ==
    /\ op = "none" /\ Len(seg1) = 3
    /\ op' = "splitQuadraticAtT"
    /\ result' = Returned(splitQuadraticAtT(seg1[1], seg1[2], seg1[3], ts))
    /\ UNCHANGED <<seg1, seg2, ts>>

\* splitCubicAtT(pt1, pt2, pt3, pt4, *ts)
CallSplitCubicAtT ==
    /\ op = "none" /\ Len(seg1) = 4
    /\ op' = "splitCubicAtT"
    /\ result' = Returned(splitCubicAtT(seg1[1], seg1[2], seg1[3], seg1[4], ts))
    /\ UNCHANGED <<seg1, seg2, ts>>

NextSplit ==
    \/ CallSplitQuadraticAtT
    \/ CallSplitCubicAtT

SpecSplit == InitSplit /\ [][NextSplit]_vars

\* C8: splitting a quadratic or cubic at k parameter values returns k+1
\* segments of the same degree; the first starts at the start point of the
\* curve, the last ends at its end point, and segment i ends where segment
\* i+1 starts, at the point of the curve at the i-th parameter.
C8_SplitChains ==
    op \in {"splitQuadraticAtT", "splitCubicAtT"} =>
        LET segs == result.val
            n == Len(seg1)
            k == Len(ts)
        IN  /\ Len(segs) = k + 1
            /\ \A i \in 1..(k + 1) : Len(segs[i]) = n
            /\ segs[1][1] = seg1[1]
            /\ segs[k + 1][n] = seg1[n]
            /\ \A i \in 1..k :
                  /\ segs[i][n] = segs[i + 1][1]
                  /\ segs[i][n] = PointAt(seg1, ts[i])

\* a cubic that is not a straight line, split at two distinct interior
\* parameters given in descending order
C8_Witness ==
    /\ op = "splitCubicAtT"
    /\ ts = <<Half, Rat(1, 4)>>
    /\ Len(result.val) = 3
    /\ seg1 = <<<<I(0), I(0)>>, <<I(0), I(1)>>, <<I(1), I(1)>>, <<I(1), I(0)>>>>
    /\ result.val[2][1] = PointAt(seg1, Half)


-----------------------------------------------------------------------------
(* Intersection finders: line / line.                                      *)

Intersection(pt, t1, t2) == [pt |-> pt, t1 |-> t1, t2 |-> t2]

_line_t_of_pt(s, e, pt) ==
    IF ~isclose(s[1], e[1]) THEN RDiv(RSub(pt[1], s[1]), RSub(e[1], s[1]))
    ELSE IF ~isclose(s[2], e[2]) THEN RDiv(RSub(pt[2], s[2]), RSub(e[2], s[2]))
    ELSE I(-1)

_both_points_are_on_same_side_of_origin(a, b, c) ==
    LET xDiff == RMul(RSub(a[1], c[1]), RSub(b[1], c[1]))
        yDiff == RMul(RSub(a[2], c[2]), RSub(b[2], c[2]))
    IN  ~(RLe(xDiff, Zero) /\ RLe(yDiff, Zero))

lineLineIntersections(s1, e1, s2, e2) ==
    LET ax == s1[1]
        ay == s1[2]
        bx == e1[1]
        by == e1[2]
        cx == s2[1]
        cy == s2[2]
        dx == e2[1]
        dy == e2[2]
    IN  IF isclose(cx, dx) /\ isclose(ax, bx) THEN Returned(<<>>)
        ELSE IF isclose(cy, dy) /\ isclose(ay, by) THEN Returned(<<>>)
        ELSE IF isclose(cx, dx) /\ isclose(cy, dy) THEN Returned(<<>>)
        ELSE IF isclose(ax, bx) /\ isclose(ay, by) THEN Returned(<<>>)
        ELSE IF isclose(bx, ax)
             \* slope34 = (dy - xy) / (dx - cx): the name xy is not defined
             THEN Raised("NameError")
        ELSE IF isclose(cx, dx)
             THEN LET x == cx
                      slope12 == RDiv(RSub(by, ay), RSub(bx, ax))
                      y == RAdd(RMul(slope12, RSub(x, ax)), ay)
                      pt == <<x, y>>
                  IN  Returned(<<Intersection(pt, _line_t_of_pt(s1, e1, pt),
                                              _line_t_of_pt(s2, e2, pt))>>)
        ELSE LET slope12 == RDiv(RSub(by, ay), RSub(bx, ax))
                 slope34 == RDiv(RSub(dy, cy), RSub(dx, cx))
             IN  IF isclose(slope12, slope34) THEN Returned(<<>>)
                 ELSE LET x == RDiv(RAdd(RSub(RSub(RMul(slope12, ax), ay),
                                              RMul(slope34, cx)), cy),
                                    RSub(slope12, slope34))
                          y == RAdd(RMul(slope12, RSub(x, ax)), ay)
                          pt == <<x, y>>
                      IN  IF /\ _both_points_are_on_same_side_of_origin(pt, e1, s1)
                             /\ _both_points_are_on_same_side_of_origin(pt, s2, e2)
                          THEN Returned(<<Intersection(pt,
                                                       _line_t_of_pt(s1, e1, pt),
                                                       _line_t_of_pt(s2, e2, pt))>>)
                          ELSE Returned(<<>>)

\* Arguments of lineLineIntersections: the end points of two segments on a
\* square grid.
MaxLineCoord == 2

LinePts == {<<I(x), I(y)>> : x \in 0..MaxLineCoord, y \in 0..MaxLineCoord}

InitLineLine ==
    /\ op = "none"
    /\ seg1 \in [1..2 -> LinePts]
    /\ seg2 \in [1..2 -> LinePts]
    /\ ts = <<>>
    /\ result = Returned(<<>>)

\* lineLineIntersections(s1, e1, s2, e2)
CallLineLineIntersections ==
    /\ op = "none"
    /\ op' = "lineLineIntersections"
    /\ result' = lineLineIntersections(seg1[1], seg1[2], seg2[1], seg2[2])
    /\ UNCHANGED <<seg1, seg2, ts>>

NextLineLine == CallLineLineIntersections

SpecLineLine == InitLineLine /\ [][NextLineLine]_vars

InUnit(t) == RLe(Zero, t) /\ RLe(t, One)

\* C1: lineLineIntersections returns an intersection only if the point lies
\* within both segments: every returned Intersection has 0 <= t1 <= 1 and
\* 0 <= t2 <= 1 (lines crossing outside either segment give the empty list).
C1_WithinBothSegments ==
    (op = "lineLineIntersections" /\ result.kind = "ok") =>
        \A i \in 1..Len(result.val) :
            InUnit(result.val[i].t1) /\ InUnit(result.val[i].t2)

\* C6: when the first line is vertical (and not a point) and the second is
\* neither vertical nor a point, lineLineIntersections returns, without
\* raising, one Intersection with x = ax and y = slope34 * (x - cx) + cy,
\* slope34 = (dy - cy) / (dx - cx).
C6_VerticalFirstLine ==
    LET ax == seg1[1][1]
        cx == seg2[1][1]
        cy == seg2[1][2]
        dx == seg2[2][1]
        dy == seg2[2][2]
    IN  ( /\ op = "lineLineIntersections"
          /\ isclose(ax, seg1[2][1]) /\ ~isclose(seg1[1][2], seg1[2][2])
          /\ ~isclose(cx, dx) ) =>
            /\ result.kind = "ok"
            /\ Len(result.val) = 1
            /\ result.val[1].pt =
                 <<ax, RAdd(RMul(RDiv(RSub(dy, cy), RSub(dx, cx)),
                                 RSub(ax, cx)), cy)>>


-----------------------------------------------------------------------------
(* Equation solvers.                                                       *)

\* floor of the square root of n >= 0, by bisection on lo..hi
RECURSIVE ISqrtIn(_, _, _)
ISqrtIn(n, lo, hi) ==
    IF lo >= hi THEN lo
    ELSE LET mid == (lo + hi + 1) \div 2
         IN  IF mid <= n \div mid THEN ISqrtIn(n, mid, hi)
             ELSE ISqrtIn(n, lo, mid - 1)

ISqrt(n) == IF n = 0 THEN 0 ELSE ISqrtIn(n, 1, n)

\* a >= 0 is the square of a rational
IsSquare(a) ==
    /\ a[1] >= 0
    /\ ISqrt(a[1]) * ISqrt(a[1]) = a[1]
    /\ ISqrt(a[2]) * ISqrt(a[2]) = a[2]

\* math.sqrt, defined on the squares of rationals only
Sqrt(a) ==
    CHOOSE r \in {<<ISqrt(a[1]), ISqrt(a[2])>>} : RMul(r, r) = a

\* a plausible slip: the two roots in the other order
solveQuadratic_swapped(a, b, c) ==
    IF LtEpsilon(RAbs(a))
    THEN IF LtEpsilon(RAbs(b))
         THEN <<>>
         ELSE <<RDiv(RNeg(c), b)>>
    ELSE LET DD == RSub(RMul(b, b), RMul(RMul(I(4), a), c))
         IN  IF RLe(Zero, DD)
             THEN LET rDD == Sqrt(DD)
                  IN  <<RDiv(RDiv(RSub(RNeg(b), rDD), I(2)), a),
                        RDiv(RDiv(RAdd(RNeg(b), rDD), I(2)), a)>>
             ELSE <<>>

solveQuadratic(a, b, c) ==
    IF LtEpsilon(RAbs(a))
    THEN IF LtEpsilon(RAbs(b))
         THEN <<>>
         ELSE <<RDiv(RNeg(c), b)>>
    ELSE LET DD == RSub(RMul(b, b), RMul(RMul(I(4), a), c))
         IN  IF RLe(Zero, DD)
             THEN LET rDD == Sqrt(DD)
                  IN  <<RDiv(RDiv(RAdd(RNeg(b), rDD), I(2)), a),
                        RDiv(RDiv(RSub(RNeg(b), rDD), I(2)), a)>>
             ELSE <<>>

\* solveQuadratic(a, b, c) takes no square root of a non-square
QuadraticIsExact(a, b, c) ==
    LET DD == RSub(RMul(b, b), RMul(RMul(I(4), a), c))
    IN  LtEpsilon(RAbs(a)) \/ RLt(DD, Zero) \/ IsSquare(DD)

RECURSIVE Pow10(_)
Pow10(k) == IF k = 0 THEN 1 ELSE 10 * Pow10(k - 1)

\* round(x, ndigits): to the nearest multiple of 10^-ndigits, ties to even
round(x, ndigits) ==
    LET scale == Pow10(ndigits)
        whole == x[1] \div x[2]
        rest == x[1] - whole * x[2]
        num == rest * scale
        q == num \div x[2]
        twice == 2 * (num - q * x[2])
        up == twice > x[2] \/ (twice = x[2] /\ q % 2 = 1)
    IN  RAdd(I(whole), Rat(IF up THEN q + 1 ELSE q, scale))

\* the divisors of n up to MaxRootTerm: a root p/q of the depressed cubic is
\* looked for among the fractions of numerator and denominator up to
\* MaxRootTerm, whose cubes stay within 32 bits
MaxRootTerm == 200

Divisors(n) == {k \in 1..(IF n < MaxRootTerm THEN n ELSE MaxRootTerm) : n % k = 0}

\* the rationals sorted ascending
RECURSIVE SortedSeq(_)
SortedSeq(S) ==
    IF S = {} THEN <<>>
    ELSE LET m == CHOOSE x \in S : \A y \in S : RLe(x, y)
         IN  <<m>> \o SortedSeq(S \ {m})

\* The candidates p/q for a rational root of y^3 - 3*Q*y + 2*R = 0, L
\* being the least common denominator of Q and R
RootCandidates(L, Q, R) ==
    LET K == 2 * R[1] * (L \div R[2])
    IN  IF K = 0
        THEN {Zero} \cup
             (IF IsSquare(RMul(I(3), Q))
              THEN {Sqrt(RMul(I(3), Q)), RNeg(Sqrt(RMul(I(3), Q)))}
              ELSE {})
        ELSE {Rat(sgn * pp, qq) : sgn \in {-1, 1},
                                 pp \in Divisors(IAbs(K)),
                                 qq \in Divisors(L)}

\* y^3 - 3*Q*y + 2*R = 0, evaluated as y*(y*y - 3*Q) = -2*R
IsDepressedRoot(y, Q, R) ==
    RMul(y, RSub(RMul(y, y), RMul(I(3), Q))) = RNeg(RMul(I(2), R))

\* a double root (y^2 = Q) counts twice
RootWithMultiplicity(y, Q) == IF RMul(y, y) = Q THEN <<y, y>> ELSE <<y>>

RootsWithMultiplicity(single, Q) ==
    IF Len(single) = 0 THEN <<>>
    ELSE IF Len(single) = 1 THEN RootWithMultiplicity(single[1], Q)
    ELSE IF Len(single) = 2
    THEN RootWithMultiplicity(single[1], Q) \o RootWithMultiplicity(single[2], Q)
    ELSE single

\* The real roots, ascending and with their multiplicity, of
\* y^3 - 3*Q*y + 2*R = 0, when they are rational: the values
\*   -2*sqrt(Q)*cos((theta + 2*k*pi)/3), theta = acos(R/sqrt(Q^3))
\* of the three-root branch, and the value -sign(R)*(A + Q/A),
\* A = (sqrt(R^2 - Q^3) + |R|)^(1/3), of the one-root branch.
DepressedRoots(Q, R) ==
    RootsWithMultiplicity(
        SortedSeq({y \in RootCandidates((Q[2] * R[2]) \div Gcd(Q[2], R[2]), Q, R) :
                     IsDepressedRoot(y, Q, R)}),
        Q)

\* Q = (a1*a1 - 3.0*a2)/9.0
CubicQ(a1, a2) == RDiv(RSub(RMul(a1, a1), RMul(I(3), a2)), I(9))

\* R = (2.0*a1*a1*a1 - 9.0*a1*a2 + 27.0*a3)/54.0
CubicR(a1, a2, a3) ==
    RDiv(RAdd(RSub(RMul(RMul(RMul(I(2), a1), a1), a1), RMul(RMul(I(9), a1), a2)),
              RMul(I(27), a3)),
         I(54))

\* a plausible slip: the merged pair placed after the third root
ThreeRoots_mergedLast(ys, a1_3) ==
    LET s0 == RSub(ys[1], a1_3)
        s1 == RSub(ys[2], a1_3)
        s2 == RSub(ys[3], a1_3)
        c01 == LtEpsilon(RSub(s1, s0))
        c12 == LtEpsilon(RSub(s2, s1))
    IN  IF c01 /\ c12
        THEN LET x == round(RDiv(RAdd(RAdd(s0, s1), s2), I(3)), epsilonDigits)
             IN  <<x, x, x>>
        ELSE IF c01
        THEN LET x == round(RDiv(RAdd(s0, s1), I(2)), epsilonDigits)
             IN  <<round(s2, epsilonDigits), x, x>>
        ELSE IF c12
        THEN LET x == round(RDiv(RAdd(s1, s2), I(2)), epsilonDigits)
             IN  <<round(s0, epsilonDigits), x, x>>
        ELSE <<round(s0, epsilonDigits), round(s1, epsilonDigits),
               round(s2, epsilonDigits)>>

\* the three-root branch once the roots ys of the depressed cubic are known:
\* shifted by a1/3, and merged where closer than epsilon
ThreeRoots(ys, a1_3) ==
    LET s0 == RSub(ys[1], a1_3)
        s1 == RSub(ys[2], a1_3)
        s2 == RSub(ys[3], a1_3)
        c01 == LtEpsilon(RSub(s1, s0))
        c12 == LtEpsilon(RSub(s2, s1))
    IN  IF c01 /\ c12
        THEN LET x == round(RDiv(RAdd(RAdd(s0, s1), s2), I(3)), epsilonDigits)
             IN  <<x, x, x>>
        ELSE IF c01
        THEN LET x == round(RDiv(RAdd(s0, s1), I(2)), epsilonDigits)
             IN  <<x, x, round(s2, epsilonDigits)>>
        ELSE IF c12
        THEN LET x == round(RDiv(RAdd(s1, s2), I(2)), epsilonDigits)
             IN  <<round(s0, epsilonDigits), x, x>>
        ELSE <<round(s0, epsilonDigits), round(s1, epsilonDigits),
               round(s2, epsilonDigits)>>

\* solveCubic from Q and R on
solveCubicQR(a1, Q, R) ==
    LET R2 == IF LtEpsilon(RMul(R, R)) THEN Zero ELSE RMul(R, R)
        Q3 == IF LtEpsilon(RAbs(RMul(RMul(Q, Q), Q))) THEN Zero
              ELSE RMul(RMul(Q, Q), Q)
    IN  IF R2 = Zero /\ Q3 = Zero
        THEN LET x == round(RDiv(RNeg(a1), I(3)), epsilonDigits)
             IN  <<x, x, x>>
        ELSE IF LeHalfEpsilon(RSub(R2, Q3))
        THEN ThreeRoots(CHOOSE r \in {DepressedRoots(Q, R)} : Len(r) = 3,
                        RDiv(a1, I(3)))
        ELSE <<round(RSub((CHOOSE r \in {DepressedRoots(Q, R)} : Len(r) = 1)[1],
                          RDiv(a1, I(3))),
                     epsilonDigits)>>

solveCubic(a, b, c, d) ==
    IF LtEpsilon(RAbs(a))
    THEN solveQuadratic(b, c, d)
    ELSE solveCubicQR(RDiv(b, a),
                      CubicQ(RDiv(b, a), RDiv(c, a)),
                      CubicR(RDiv(b, a), RDiv(c, a), RDiv(d, a)))

\* the roots the branch taken for Q and R computes are rational
CubicQRIsExact(Q, R) ==
    \/ R = Zero /\ Q = Zero
    \/ Len(DepressedRoots(Q, R)) =
           (IF LeHalfEpsilon(RSub(RMul(R, R), RMul(RMul(Q, Q), Q))) THEN 3 ELSE 1)

\* solveCubic(a, b, c, d) is computed exactly: the roots its branch computes
\* are rational
CubicIsExact(a, b, c, d) ==
    IF LtEpsilon(RAbs(a)) THEN QuadraticIsExact(b, c, d)
    ELSE CubicQRIsExact(CubicQ(RDiv(b, a), RDiv(c, a)),
                        CubicR(RDiv(b, a), RDiv(c, a), RDiv(d, a)))

-----------------------------------------------------------------------------
(* Bounding boxes.                                                         *)

\* arrayTools.calcBounds: the axis-aligned extent (xMin, yMin, xMax, yMax)
\* of a non-empty sequence of points
RECURSIVE calcBounds(_)
calcBounds(points) ==
    IF Len(points) = 1
    THEN <<points[1][1], points[1][2], points[1][1], points[1][2]>>
    ELSE LET r == calcBounds(Tail(points))
             p == points[1]
         IN  <<RMin(p[1], r[1]), RMin(p[2], r[2]),
               RMax(p[1], r[3]), RMax(p[2], r[4])>>

\* [f(t) for t in roots if 0 <= t < 1]
RECURSIVE RootsInHalfOpenUnit(_)
RootsInHalfOpenUnit(roots) ==
    IF roots = <<>> THEN <<>>
    ELSE (IF RLe(Zero, roots[1]) /\ RLt(roots[1], One) THEN <<roots[1]>> ELSE <<>>)
         \o RootsInHalfOpenUnit(Tail(roots))

\* a plausible slip: the end points alone, without the extrema
calcQuadraticBounds_endsOnly(pt1, pt2, pt3) == calcBounds(<<pt1, pt3>>)

\* calcQuadraticBounds from the power-basis coefficients p = (a, b, c) on
QuadraticBoundsOf(p, pt1, pt3) ==
    LET ax2 == RMul(p[1][1], I(2))
        ay2 == RMul(p[1][2], I(2))
        roots == RootsInHalfOpenUnit(
                     (IF ax2 # Zero THEN <<RDiv(RNeg(p[2][1]), ax2)>> ELSE <<>>)
                     \o (IF ay2 # Zero THEN <<RDiv(RNeg(p[2][2]), ay2)>> ELSE <<>>))
    IN  calcBounds([i \in 1..Len(roots) |->
                      <<RAdd(RAdd(RMul(RMul(p[1][1], roots[i]), roots[i]),
                                  RMul(p[2][1], roots[i])), p[3][1]),
                        RAdd(RAdd(RMul(RMul(p[1][2], roots[i]), roots[i]),
                                  RMul(p[2][2], roots[i])), p[3][2])>>]
                   \o <<pt1, pt3>>)

calcQuadraticBounds(pt1, pt2, pt3) ==
    QuadraticBoundsOf(calcQuadraticParameters(pt1, pt2, pt3), pt1, pt3)

\* a*t^3 + b*t^2 + c*t + d on one axis
CubicValue(a, b, c, d, t) ==
    RAdd(RAdd(RAdd(RMul(RMul(RMul(a, t), t), t), RMul(RMul(b, t), t)),
              RMul(c, t)), d)

\* the extent of the curve points at the kept roots and of the end points
CubicBoundsAt(roots, p, pt1, pt4) ==
    calcBounds([i \in 1..Len(roots) |->
                  <<CubicValue(p[1][1], p[2][1], p[3][1], p[4][1], roots[i]),
                    CubicValue(p[1][2], p[2][2], p[3][2], p[4][2], roots[i])>>]
               \o <<pt1, pt4>>)

\* calcCubicBounds from the power-basis coefficients p = (a, b, c, d) on
CubicBoundsOf(p, pt1, pt4) ==
    CubicBoundsAt(
        RootsInHalfOpenUnit(
            solveQuadratic(RMul(p[1][1], I(3)), RMul(p[2][1], I(2)), p[3][1]))
        \o RootsInHalfOpenUnit(
            solveQuadratic(RMul(p[1][2], I(3)), RMul(p[2][2], I(2)), p[3][2])),
        p, pt1, pt4)

calcCubicBounds(pt1, pt2, pt3, pt4) ==
    CubicBoundsOf(calcCubicParameters(pt1, pt2, pt3, pt4), pt1, pt4)

\* calcCubicBounds takes no square root of a non-square
DerivativeIsExact(p) ==
    /\ QuadraticIsExact(RMul(p[1][1], I(3)), RMul(p[2][1], I(2)), p[3][1])
    /\ QuadraticIsExact(RMul(p[1][2], I(3)), RMul(p[2][2], I(2)), p[3][2])

CubicBoundsIsExact(c) ==
    DerivativeIsExact(calcCubicParameters(c[1], c[2], c[3], c[4]))

\* Arguments of the bounds calls: control points on a small grid; the cubics
\* are those whose derivative has rational roots.
MaxBoundsX == 2
MaxBoundsY == 1

BoundsPts == {<<I(x), I(y)>> : x \in 0..MaxBoundsX, y \in 0..MaxBoundsY}
BoundsStarts == {<<I(0), I(0)>>, <<I(1), I(1)>>}
BoundsCurves ==
    {<<p0>> \o rest : p0 \in BoundsStarts,
                      rest \in [1..2 -> BoundsPts] \cup [1..3 -> BoundsPts]}

InitBounds ==
    /\ op = "none"
    /\ seg1 \in BoundsCurves
    /\ Len(seg1) = 4 => CubicBoundsIsExact(seg1)
    /\ seg2 = <<>>
    /\ ts = <<>>
    /\ result = Returned(<<>>)

\* calcQuadraticBounds(pt1, pt2, pt3)
CallQuadraticBounds ==
    /\ op = "none" /\ Len(seg1) = 3
    /\ op' = "calcQuadraticBounds"
    /\ result' = Returned(calcQuadraticBounds(seg1[1], seg1[2], seg1[3]))
    /\ UNCHANGED <<seg1, seg2, ts>>

\* calcCubicBounds(pt1, pt2, pt3, pt4)
CallCubicBounds ==
    /\ op = "none" /\ Len(seg1) = 4
    /\ op' = "calcCubicBounds"
    /\ result' = Returned(calcCubicBounds(seg1[1], seg1[2], seg1[3], seg1[4]))
    /\ UNCHANGED <<seg1, seg2, ts>>

NextBounds ==
    \/ CallQuadraticBounds
    \/ CallCubicBounds

SpecBounds == InitBounds /\ [][NextBounds]_vars

\* parameters k / SampleDen, k = 0 .. SampleDen, at which containment is
\* checked
SampleDen == 8
SampleTs == {Rat(k, SampleDen) : k \in 0..SampleDen}

\* parameters p/q of [0, 1] with q up to MaxRootDen, among which the
\* extrema of the curves of BoundsCurves lie
MaxRootDen == 12
RootTs == {t \in {Rat(pp, qq) : pp \in 0..MaxRootDen, qq \in 1..MaxRootDen} :
             RLe(t, One)}

InRect(pt, r) ==
    /\ RLe(r[1], pt[1]) /\ RLe(pt[1], r[3])
    /\ RLe(r[2], pt[2]) /\ RLe(pt[2], r[4])

-----------------------------------------------------------------------------
(* Intersection finders: curve / line.                                     *)

\* None, as returned by a function that falls off its end
None == <<>>

\* sorted(list): ascending, equal values kept
RECURSIVE Insert(_, _)
Insert(x, sq) ==
    IF sq = <<>> THEN <<x>>
    ELSE IF RLe(x, sq[1]) THEN <<x>> \o sq
    ELSE <<sq[1]>> \o Insert(x, Tail(sq))

RECURSIVE sorted(_)
sorted(sq) == IF sq = <<>> THEN <<>> ELSE Insert(sq[1], sorted(Tail(sq)))

\* [i for i in intersections if 0.0 <= i <= 1]
RECURSIVE RootsInUnit(_)
RootsInUnit(roots) ==
    IF roots = <<>> THEN <<>>
    ELSE (IF InUnit(roots[1]) THEN <<roots[1]>> ELSE <<>>)
         \o RootsInUnit(Tail(roots))

\* |end - start|^2
SquaredLength(segment) ==
    RAdd(RMul(RSub(segment[Len(segment)][1], segment[1][1]),
              RSub(segment[Len(segment)][1], segment[1][1])),
         RMul(RSub(segment[Len(segment)][2], segment[1][2]),
              RSub(segment[Len(segment)][2], segment[1][2])))

\* the rotation by -atan2(end - start) of the vector (x, y), for a
\* direction end - start = (ex, ey) of length len: the identity when
\* end = start, as atan2(0, 0) = 0
Rotate(ex, ey, len, x, y) ==
    IF len = Zero THEN <<x, y>>
    ELSE <<RAdd(RMul(RDiv(ex, len), x), RMul(RDiv(ey, len), y)),
           RSub(RMul(RDiv(ex, len), y), RMul(RDiv(ey, len), x))>>

\* _alignment_transformation(segment) applied to a point: the translation
\* by -start followed by the rotation by -atan2(end - start), which puts
\* the segment on the positive x axis
AlignPoint(segment, pt) ==
    Rotate(RSub(segment[Len(segment)][1], segment[1][1]),
           RSub(segment[Len(segment)][2], segment[1][2]),
           Sqrt(SquaredLength(segment)),
           RSub(pt[1], segment[1][1]),
           RSub(pt[2], segment[1][2]))

\* _alignment_transformation(line).transformPoints(curve)
AlignedCurve(curve, line) == [i \in 1..Len(curve) |-> AlignPoint(line, curve[i])]

\* the roots in [0, 1], sorted, of the x and of the y polynomial of the
\* aligned cubic with the power-basis coefficients p = (a, b, c, d)
AlignedCubicRoots(p) ==
    sorted(RootsInUnit(solveCubic(p[1][1], p[2][1], p[3][1], p[4][1])
                       \o solveCubic(p[1][2], p[2][2], p[3][2], p[4][2])))

\* calcCubicParameters(*aligned_curve)
AlignedCubicParameters(aligned) ==
    calcCubicParameters(aligned[1], aligned[2], aligned[3], aligned[4])

_curve_line_intersections_t(curve, line) ==
    \* segment[0] of an empty line
    IF Len(line) = 0 THEN Raised("IndexError")
    \* calcCubicParameters(*aligned_curve) with three points
    ELSE IF Len(curve) = 3 THEN Raised("TypeError")
    ELSE IF Len(curve) = 4
    THEN Returned(AlignedCubicRoots(AlignedCubicParameters(AlignedCurve(curve, line))))
    ELSE Raised("ValueError")

\* the Intersection of every parameter the search returned, or its error
IntersectionsAt(tl, curve, line) ==
    IF tl.kind = "raise" THEN tl
    ELSE IF tl.val = <<>> THEN Returned(<<>>)
    \* _line_t_of_pt(*line, pt) takes the two end points and pt
    ELSE IF Len(line) # 2 THEN Raised("TypeError")
    ELSE Returned([i \in 1..Len(tl.val) |->
            Intersection(PointAt(curve, tl.val[i]), tl.val[i],
                         _line_t_of_pt(line[1], line[2], PointAt(curve, tl.val[i])))])

curveLineIntersections(curve, line) ==
    IF Len(curve) \notin {3, 4} THEN Raised("ValueError")
    ELSE IntersectionsAt(_curve_line_intersections_t(curve, line), curve, line)

\* the model computes curveLineIntersections(curve, line) exactly: the line
\* has a rational length, the roots of both aligned polynomials are
\* rational, and those kept have a denominator of at most MaxTDen
MaxTDen == 64

SmallDenominators(tl) == \A i \in 1..Len(tl) : tl[i][2] <= MaxTDen

AlignedIsExact(p) ==
    /\ CubicIsExact(p[1][1], p[2][1], p[3][1], p[4][1])
    /\ CubicIsExact(p[1][2], p[2][2], p[3][2], p[4][2])
    /\ SmallDenominators(AlignedCubicRoots(p))

CurveLineIsExact(curve, line) ==
    /\ IsSquare(SquaredLength(line))
    /\ AlignedIsExact(AlignedCubicParameters(AlignedCurve(curve, line)))

-----------------------------------------------------------------------------
(* Intersection finders: curve / curve.                                    *)

\* arrayTools.sectRect: whether two rectangles (xMin, yMin, xMax, yMax)
\* have a point in common
sectRect(rect1, rect2) ==
    LET xMin == RMax(rect1[1], rect2[1])
        yMin == RMax(rect1[2], rect2[2])
        xMax == RMin(rect1[3], rect2[3])
        yMax == RMin(rect1[4], rect2[4])
    IN  RLe(xMin, xMax) /\ RLe(yMin, yMax)

\* arrayTools.rectArea
rectArea(rect) == RMul(RSub(rect[4], rect[2]), RSub(rect[3], rect[1]))

_curve_bounds(c) ==
    IF Len(c) = 3 THEN calcQuadraticBounds(c[1], c[2], c[3])
    ELSE IF Len(c) = 4 THEN calcCubicBounds(c[1], c[2], c[3], c[4])
    ELSE None

\* splitLine's two halves at t, as used by _split_segment_at_t
_split_segment_at_t(c, t) ==
    IF Len(c) = 2
    THEN LET midpoint == linePointAtT(c[1], c[2], t)
         IN  << <<c[1], midpoint>>, <<midpoint, c[2]>> >>
    ELSE IF Len(c) = 3 THEN splitQuadraticAtT(c[1], c[2], c[3], <<t>>)
    ELSE IF Len(c) = 4 THEN splitCubicAtT(c[1], c[2], c[3], c[4], <<t>>)
    ELSE None

\* precision = 1e-3, as 1 / PrecisionInv
PrecisionInv == 1000

precision == Rat(1, PrecisionInv)

\* midpoint(r) = 0.5 * (r[0] + r[1])
midpoint(r) == RMul(Half, RAdd(r[1], r[2]))

\* the key taken from ts[1]
unique_key_second(tpair) == (tpair[2][1] * PrecisionInv) \div tpair[2][2]

\* int(ts[0] / precision)
unique_key(tpair) == (tpair[1][1] * PrecisionInv) \div tpair[1][2]

\* the first pair of every key, in the order found
RECURSIVE unique_values(_, _)
unique_values(found, seen) ==
    IF found = <<>> THEN <<>>
    ELSE IF unique_key(found[1]) \in seen
         THEN unique_values(Tail(found), seen)
         ELSE <<found[1]>>
              \o unique_values(Tail(found), seen \cup {unique_key(found[1])})

\* a < precision for a rational a:  n/d < 1e-3  <=>  n * 1000 < d,
\* evaluated without leaving 32 bits
LtPrecision(a) == a[1] < CeilDiv(a[2], PrecisionInv)

\* rectArea(bounds) < precision
BoxIsSmall(bounds) == LtPrecision(rectArea(bounds))

\* the four recursive calls on the halves s1 of curve1 and s2 of curve2
RECURSIVE _curve_curve_intersections_t(_, _, _, _)
FoundInHalves(s1, s2, r1, r2) ==
    _curve_curve_intersections_t(s1[1], s2[1], <<r1[1], midpoint(r1)>>,
                                 <<r2[1], midpoint(r2)>>)
    \o _curve_curve_intersections_t(s1[2], s2[1], <<midpoint(r1), r1[2]>>,
                                    <<r2[1], midpoint(r2)>>)
    \o _curve_curve_intersections_t(s1[1], s2[2], <<r1[1], midpoint(r1)>>,
                                    <<midpoint(r2), r2[2]>>)
    \o _curve_curve_intersections_t(s1[2], s2[2], <<midpoint(r1), r1[2]>>,
                                    <<midpoint(r2), r2[2]>>)

\* _curve_curve_intersections_t once the bounds and the ranges are known
IntersectionsInBounds(curve1, curve2, bounds1, bounds2, r1, r2) ==
    IF ~sectRect(bounds1, bounds2) THEN <<>>
    ELSE IF BoxIsSmall(bounds1) /\ BoxIsSmall(bounds2)
    THEN << <<midpoint(r1), midpoint(r2)>> >>
    ELSE unique_values(FoundInHalves(_split_segment_at_t(curve1, Half),
                                     _split_segment_at_t(curve2, Half), r1, r2),
                       {})

_curve_curve_intersections_t(curve1, curve2, range1, range2) ==
    IntersectionsInBounds(curve1, curve2,
                          _curve_bounds(curve1), _curve_bounds(curve2),
                          IF range1 = None THEN <<Zero, One>> ELSE range1,
                          IF range2 = None THEN <<Zero, One>> ELSE range2)

\* [Intersection(pt=segmentPointAtT(curve1, ts[0]), t1=ts[0], t2=ts[1]) ...]
IntersectionsOf(intersection_ts, curve1) ==
    [i \in 1..Len(intersection_ts) |->
        Intersection(PointAt(curve1, intersection_ts[i][1]),
                     intersection_ts[i][1], intersection_ts[i][2])]

curveCurveIntersections(curve1, curve2) ==
    \* _curve_bounds gives None for any other length, which sectRect
    \* cannot unpack
    IF Len(curve1) \notin {3, 4} \/ Len(curve2) \notin {3, 4}
    THEN Raised("TypeError")
    ELSE Returned(IntersectionsOf(
             _curve_curve_intersections_t(curve1, curve2, None, None), curve1))

\* the dispatch once the segments are arranged by degree
Dispatch(a, b) ==
    IF Len(a) > 2
    THEN IF Len(b) > 2 THEN curveCurveIntersections(a, b)
         ELSE curveLineIntersections(a, b)
    ELSE IF Len(a) = 2 /\ Len(b) = 2
    THEN lineLineIntersections(a[1], a[2], b[1], b[2])
    ELSE Raised("ValueError")

segmentSegmentIntersections(s1, s2) ==
    IF Len(s2) > Len(s1) THEN Dispatch(s2, s1) ELSE Dispatch(s1, s2)

-----------------------------------------------------------------------------
(* The intersection calls.                                                 *)

\* (1) Segments of every length 0 .. MaxSegLen, so that every combination
\* of supported and unsupported lengths is called: the first n points of a
\* slanted run of rational length, against the first m points of a vertical
\* run that is either far from it or crosses it.
MaxSegLen == 5

DiagPts == [i \in 1..MaxSegLen |-> <<Rat(4 * (i - 1), 8), Rat(3 * (i - 1), 8)>>]
FarPts == [i \in 1..MaxSegLen |-> <<I(MaxSegLen), I(i)>>]
NearPts == [i \in 1..MaxSegLen |-> <<Rat(4, 8), Rat(2 + i, 8)>>]

AnyLengthArgs ==
    {<<SubSeq(DiagPts, 1, n), SubSeq(other, 1, m)>> :
        n \in 0..MaxSegLen, m \in 0..MaxSegLen, other \in {FarPts, NearPts}}

\* (2) Cubics with their two middle points on a small grid, against
\* horizontal and vertical lines of either direction, where the model
\* computes the call exactly; each pair in both orders.
MaxCurveX == 1
MaxCurveY == 1

CurvePts == {<<I(x), I(y)>> : x \in -1..MaxCurveX, y \in 0..MaxCurveY}
CurveStart == <<I(-1), I(1)>>
Lines ==
    { << <<I(0), I(0)>>, <<I(4), I(0)>> >>,
      << <<I(0), I(0)>>, <<I(0), I(2)>> >>,
      << <<I(1), I(1)>>, <<I(1), I(0)>> >>,
      << <<I(-1), I(1)>>, <<I(1), I(1)>> >> }

CurveEnds == {<<I(-1), I(0)>>, <<I(1), I(1)>>}

CurveLineArgs ==
    {<<(<<CurveStart>> \o mid \o <<p3>>), line>> :
        mid \in [1..2 -> CurvePts], p3 \in CurveEnds, line \in Lines}

\* (3) Quadratics from (0, 0) to (2, 0) with the middle point on a grid,
\* against three quadratics that run upwards; and a pair of thin quadratics
\* that cross, one nearly horizontal, one nearly vertical, each with a
\* bounding box of positive area 2 / ThinDen.
MaxQuadCoord == 2
ThinDen == 4096

QuadPts == {<<I(x), I(y)>> : x \in 0..MaxQuadCoord, y \in 0..MaxQuadCoord}
ThinAcross ==
    << <<I(0), I(0)>>, <<I(1), Rat(1, 2 * ThinDen)>>, <<I(2), Rat(1, ThinDen)>> >>
ThinUp ==
    << <<Half, I(-1)>>, <<RAdd(Half, Rat(1, 2 * ThinDen)), I(0)>>,
       <<RAdd(Half, Rat(1, ThinDen)), I(1)>> >>

QuadsUp ==
    { << <<I(1), I(-1)>>, <<I(1), I(1)>>, <<I(1), I(2)>> >>,
      << <<I(1), I(-1)>>, <<I(0), I(0)>>, <<I(1), I(2)>> >>,
      << <<I(0), I(0)>>, <<I(2), I(1)>>, <<I(0), I(1)>> >> }

CurveCurveArgs ==
    {<< << <<I(0), I(0)>>, p, <<I(2), I(0)>> >>, q >> :
        p \in QuadPts, q \in QuadsUp}
    \cup {<<ThinAcross, ThinUp>>, <<ThinUp, ThinAcross>>}

InitIntersect ==
    /\ op = "none"
    /\ \/ \E a \in AnyLengthArgs \cup CurveCurveArgs :
              seg1 = a[1] /\ seg2 = a[2]
       \/ \E a \in CurveLineArgs :
              /\ CurveLineIsExact(a[1], a[2])
              /\ \/ seg1 = a[1] /\ seg2 = a[2]
                 \/ seg1 = a[2] /\ seg2 = a[1]
    /\ ts = <<Half>>
    /\ result = Returned(<<>>)

\* curveLineIntersections(curve, line)
CallCurveLineIntersections ==
    /\ op = "none"
    /\ op' = "curveLineIntersections"
    /\ result' = curveLineIntersections(seg1, seg2)
    /\ UNCHANGED <<seg1, seg2, ts>>

\* curveCurveIntersections(curve1, curve2)
CallCurveCurveIntersections ==
    /\ op = "none"
    /\ op' = "curveCurveIntersections"
    /\ result' = curveCurveIntersections(seg1, seg2)
    /\ UNCHANGED <<seg1, seg2, ts>>

\* segmentSegmentIntersections(seg1, seg2)
CallSegmentSegmentIntersections ==
    /\ op = "none"
    /\ op' = "segmentSegmentIntersections"
    /\ result' = segmentSegmentIntersections(seg1, seg2)
    /\ UNCHANGED <<seg1, seg2, ts>>

\* segmentPointAtT(seg, t)
CallSegmentPointAtT ==
    /\ op = "none"
    /\ op' = "segmentPointAtT"
    /\ result' = segmentPointAtT(seg1, ts[1])
    /\ UNCHANGED <<seg1, seg2, ts>>

NextIntersect ==
    \/ CallCurveLineIntersections
    \/ CallCurveCurveIntersections
    \/ CallSegmentSegmentIntersections
    \/ CallSegmentPointAtT

SpecIntersect == InitIntersect /\ [][NextIntersect]_vars


\* |p - q| < 1e-3 on each axis
Near(p, q) ==
    /\ LtPrecision(RAbs(RSub(p[1], q[1])))
    /\ LtPrecision(RAbs(RSub(p[2], q[2])))

\* C2: every Intersection (pt, t1, t2) returned by
\* curveLineIntersections(curve, line) for a cubic curve and a non-degenerate
\* line has pt on the curve at t1 and on the line through the line's end
\* points at t2 (here up to 1e-3 on each axis).
C2_OnCurveAndOnLine ==
    (/\ op = "curveLineIntersections" /\ result.kind = "ok"
     /\ Len(seg1) = 4 /\ Len(seg2) = 2 /\ seg2[1] # seg2[2]) =>
        \A i \in 1..Len(result.val) :
            /\ Near(result.val[i].pt, PointAt(seg1, result.val[i].t1))
            /\ Near(result.val[i].pt, PointAt(seg2, result.val[i].t2))

\* C3: every intersection (pt, t1, t2) returned by
\* curveCurveIntersections(S1, S2), S1 and S2 quadratic or cubic, has
\* eval(S1, t1) and eval(S2, t2) within 1e-3 of pt, thin bounding boxes
\* included.
C3_WithinPrecision ==
    (op = "curveCurveIntersections" /\ result.kind = "ok") =>
        \A i \in 1..Len(result.val) :
            /\ Near(PointAt(seg1, result.val[i].t1), result.val[i].pt)
            /\ Near(PointAt(seg2, result.val[i].t2), result.val[i].pt)

\* C4: in every Intersection returned by
\* segmentSegmentIntersections(seg1, seg2), t1 is the parameter of the
\* returned point on the first argument seg1, whatever the degrees of the
\* two segments, a line passed first and a cubic second included.
C4_T1OnFirstArgument ==
    (op = "segmentSegmentIntersections" /\ result.kind = "ok") =>
        \A i \in 1..Len(result.val) :
            Near(PointAt(seg1, result.val[i].t1), result.val[i].pt)

\* the roots in [0, 1] of the two quadratic polynomials of the aligned
\* quadratic, as the cubic case collects those of the two cubic polynomials
AlignedQuadraticRoots(curve, line) ==
    LET aligned == AlignedCurve(curve, line)
        p == calcQuadraticParameters(aligned[1], aligned[2], aligned[3])
    IN  sorted(RootsInUnit(solveQuadratic(p[1][1], p[2][1], p[3][1])
                           \o solveQuadratic(p[1][2], p[2][2], p[3][2])))

\* C5: curveLineIntersections with a quadratic curve (three points) and a
\* line returns without raising, one Intersection for every root in [0, 1]
\* of the aligned quadratic.
C5_QuadraticCurveLine ==
    (op = "curveLineIntersections" /\ Len(seg1) = 3 /\ Len(seg2) = 2) =>
        /\ result.kind = "ok"
        /\ LET roots == AlignedQuadraticRoots(seg1, seg2)
           IN  /\ Len(result.val) = Len(roots)
               /\ \A i \in 1..Len(roots) : result.val[i].t1 = roots[i]

SupportedLengths == {2, 3, 4}

\* C7: segmentPointAtT, curveLineIntersections, curveCurveIntersections and
\* segmentSegmentIntersections raise ValueError, and nothing else, whenever
\* a segment they are given has a number of points other than 2, 3 or 4.
C7_InvalidDegree ==
    /\ (/\ op \in {"curveLineIntersections", "curveCurveIntersections",
                   "segmentSegmentIntersections"}
        /\ (Len(seg1) \notin SupportedLengths \/ Len(seg2) \notin SupportedLengths))
           => result = Raised("ValueError")
    /\ (op = "segmentPointAtT" /\ Len(seg1) \notin SupportedLengths)
           => result = Raised("ValueError")


-----------------------------------------------------------------------------
(* The equation solver calls.                                              *)

\* Coefficients of the equation: integers and halves up to MaxCoeff in
\* absolute value.  ts holds the coefficients (a, b, c) of a solveQuadratic
\* call or (a, b, c, d) of a solveCubic call, where the model computes the
\* call exactly.  A non-zero number below epsilon = 1e-10 has no 32-bit
\* rational, so |x| < epsilon is met by x = 0 only.
MaxCoeff == 2

InitSolve ==
    /\ op = "none"
    /\ seg1 = <<>>
    /\ seg2 = <<>>
    /\ \/ /\ ts \in [1..3 -> {I(n) : n \in -MaxCoeff..MaxCoeff}
                             \cup {Half, RNeg(Half)}]
          /\ QuadraticIsExact(ts[1], ts[2], ts[3])
       \/ /\ ts \in [1..4 -> {I(n) : n \in -MaxCoeff..MaxCoeff}]
          /\ CubicIsExact(ts[1], ts[2], ts[3], ts[4])
    /\ result = Returned(<<>>)

\* solveQuadratic(a, b, c)
CallSolveQuadratic ==
    /\ op = "none"
    /\ Len(ts) = 3
    /\ op' = "solveQuadratic"
    /\ result' = Returned(solveQuadratic(ts[1], ts[2], ts[3]))
    /\ UNCHANGED <<seg1, seg2, ts>>

\* solveCubic(a, b, c, d)
CallSolveCubic ==
    /\ op = "none"
    /\ Len(ts) = 4
    /\ op' = "solveCubic"
    /\ result' = Returned(solveCubic(ts[1], ts[2], ts[3], ts[4]))
    /\ UNCHANGED <<seg1, seg2, ts>>

NextSolve ==
    \/ CallSolveQuadratic
    \/ CallSolveCubic

SpecSolve == InitSolve /\ [][NextSolve]_vars

\* x is (-b + s)/(2a) for the s of sign sgn with s*s = DD
IsQuadraticRoot(x, a, b, DD, sgn) ==
    /\ RMul(RAdd(RMul(RMul(I(2), a), x), b), RAdd(RMul(RMul(I(2), a), x), b)) = DD
    /\ RLe(Zero, RMul(I(sgn), RAdd(RMul(RMul(I(2), a), x), b)))

\* what solveQuadratic(a, b, c) is to return, DD being b*b - 4ac
QuadraticContract(roots, a, b, c, DD) ==
    IF LtEpsilon(RAbs(a))
    THEN IF LtEpsilon(RAbs(b)) THEN roots = <<>>
         ELSE roots = <<RDiv(RNeg(c), b)>>
    ELSE IF RLt(DD, Zero) THEN roots = <<>>
    ELSE /\ Len(roots) = 2
         /\ IsQuadraticRoot(roots[1], a, b, DD, 1)
         /\ IsQuadraticRoot(roots[2], a, b, DD, -1)

\* C11: solveQuadratic(a, b, c) returns no root when |a| < epsilon and
\* |b| < epsilon, the one root -c/b when |a| < epsilon <= |b|, no root when
\* |a| >= epsilon and D = b*b - 4ac < 0, and otherwise the two values
\* (-b + sqrt(D))/(2a), (-b - sqrt(D))/(2a) in that order, equal when D = 0.
C11_SolveQuadratic ==
    op = "solveQuadratic" =>
        QuadraticContract(result.val, ts[1], ts[2], ts[3],
                          RSub(RMul(ts[2], ts[2]), RMul(RMul(I(4), ts[1]), ts[3])))

\* a call with a > 0 and D > 0: two distinct roots, the larger one first
C11_Witness ==
    /\ op = "solveQuadratic"
    /\ Len(result.val) = 2
    /\ RLt(Zero, ts[1])
    /\ RLt(result.val[2], result.val[1])


\* x snapped to 0 when |x| < epsilon
Snapped(x) == IF LtEpsilon(RAbs(x)) THEN Zero ELSE x

\* what solveCubic is to return when |a| >= epsilon, R2 and Q3 being the
\* snapped values of R*R and Q*Q*Q
CubicContractOf(roots, a1, R2, Q3) ==
    IF R2 = Zero /\ Q3 = Zero
    THEN /\ Len(roots) = 3
         /\ \A i \in 1..3 : roots[i] = round(RDiv(RNeg(a1), I(3)), epsilonDigits)
    ELSE IF LeHalfEpsilon(RSub(R2, Q3))
    THEN /\ Len(roots) = 3
         /\ RLe(roots[1], roots[2])
         /\ RLe(roots[2], roots[3])
    ELSE Len(roots) = 1

CubicContractQR(roots, a1, Q, R) ==
    CubicContractOf(roots, a1, Snapped(RMul(R, R)), Snapped(RMul(RMul(Q, Q), Q)))

\* C12: solveCubic(a, b, c, d) returns solveQuadratic(b, c, d) when
\* |a| < epsilon; otherwise three times round(-a1/3, 6) when the snapped R2
\* and Q3 are both 0, three values in ascending order when
\* R2 - Q3 <= epsilon/2, and one value in every other case.
C12_SolveCubic ==
    op = "solveCubic" =>
        IF LtEpsilon(RAbs(ts[1]))
        THEN result.val = solveQuadratic(ts[2], ts[3], ts[4])
        ELSE CubicContractQR(result.val, RDiv(ts[2], ts[1]),
                 CubicQ(RDiv(ts[2], ts[1]), RDiv(ts[3], ts[1])),
                 CubicR(RDiv(ts[2], ts[1]), RDiv(ts[3], ts[1]), RDiv(ts[4], ts[1])))

\* a true cubic with a double root below a single root: three values, the
\* first two merged
C12_Witness ==
    /\ op = "solveCubic"
    /\ ts[1] # Zero
    /\ Len(result.val) = 3
    /\ result.val[1] = result.val[2]
    /\ RLt(result.val[2], result.val[3])


-----------------------------------------------------------------------------
(* Splitting at an axis-aligned coordinate.                                *)

\* (x, y)[isHorizontal]: isHorizontal is used as an index, False (0)
\* selecting x and True (1) selecting y
AtAxis(pair, isHorizontal) == pair[isHorizontal[1] + 1]

\* a plausible slip: a crossing at the end point splits as well
splitLine_closed(pt1, pt2, where, isHorizontal) ==
    LET ax == RSub(pt2[1], pt1[1])
        ay == RSub(pt2[2], pt1[2])
        a == AtAxis(<<ax, ay>>, isHorizontal)
        t == RDiv(RSub(where, AtAxis(pt1, isHorizontal)), a)
        midPt == <<RAdd(RMul(ax, t), pt1[1]), RAdd(RMul(ay, t), pt1[2])>>
    IN  IF a = Zero THEN << <<pt1, pt2>> >>
        ELSE IF RLe(Zero, t) /\ RLe(t, One)
        THEN << <<pt1, midPt>>, <<midPt, pt2>> >>
        ELSE << <<pt1, pt2>> >>

splitLine(pt1, pt2, where, isHorizontal) ==
    LET ax == RSub(pt2[1], pt1[1])
        ay == RSub(pt2[2], pt1[2])
        a == AtAxis(<<ax, ay>>, isHorizontal)
        t == RDiv(RSub(where, AtAxis(pt1, isHorizontal)), a)
        midPt == <<RAdd(RMul(ax, t), pt1[1]), RAdd(RMul(ay, t), pt1[2])>>
    IN  IF a = Zero THEN << <<pt1, pt2>> >>
        ELSE IF RLe(Zero, t) /\ RLt(t, One)
        THEN << <<pt1, midPt>>, <<midPt, pt2>> >>
        ELSE << <<pt1, pt2>> >>

\* solveQuadratic(a[isHorizontal], b[isHorizontal], c[isHorizontal] - where)
QuadraticSolutions(p, where, isHorizontal) ==
    solveQuadratic(AtAxis(p[1], isHorizontal), AtAxis(p[2], isHorizontal),
                   RSub(AtAxis(p[3], isHorizontal), where))

\* a plausible slip: the solutions kept in the order the solver returned them
splitQuadratic_unsorted(pt1, pt2, pt3, where, isHorizontal) ==
    LET p == calcQuadraticParameters(pt1, pt2, pt3)
        solutions == RootsInHalfOpenUnit(QuadraticSolutions(p, where, isHorizontal))
    IN  IF solutions = <<>> THEN << <<pt1, pt2, pt3>> >>
        ELSE _splitQuadraticAtT(p[1], p[2], p[3], solutions)

splitQuadratic(pt1, pt2, pt3, where, isHorizontal) ==
    LET p == calcQuadraticParameters(pt1, pt2, pt3)
        solutions ==
            sorted(RootsInHalfOpenUnit(QuadraticSolutions(p, where, isHorizontal)))
    IN  IF solutions = <<>> THEN << <<pt1, pt2, pt3>> >>
        ELSE _splitQuadraticAtT(p[1], p[2], p[3], solutions)

\* solveCubic(a[isHorizontal], b[isHorizontal], c[isHorizontal],
\*            d[isHorizontal] - where)
CubicSolutions(p, where, isHorizontal) ==
    solveCubic(AtAxis(p[1], isHorizontal), AtAxis(p[2], isHorizontal),
               AtAxis(p[3], isHorizontal), RSub(AtAxis(p[4], isHorizontal), where))

splitCubic(pt1, pt2, pt3, pt4, where, isHorizontal) ==
    LET p == calcCubicParameters(pt1, pt2, pt3, pt4)
        solutions ==
            sorted(RootsInHalfOpenUnit(CubicSolutions(p, where, isHorizontal)))
    IN  IF solutions = <<>> THEN << <<pt1, pt2, pt3, pt4>> >>
        ELSE _splitCubicAtT(p[1], p[2], p[3], p[4], solutions)

\* the model computes the split of the curve exactly: the roots of the
\* equation of the selected axis are rational and of a small denominator
CoordIsExact(seg, where, isHorizontal) ==
    IF Len(seg) = 3
    THEN QuadraticIsExact(
             AtAxis(calcQuadraticParameters(seg[1], seg[2], seg[3])[1], isHorizontal),
             AtAxis(calcQuadraticParameters(seg[1], seg[2], seg[3])[2], isHorizontal),
             RSub(AtAxis(seg[1], isHorizontal), where))
    ELSE IF Len(seg) = 4
    THEN /\ CubicIsExact(
                AtAxis(calcCubicParameters(seg[1], seg[2], seg[3], seg[4])[1], isHorizontal),
                AtAxis(calcCubicParameters(seg[1], seg[2], seg[3], seg[4])[2], isHorizontal),
                AtAxis(calcCubicParameters(seg[1], seg[2], seg[3], seg[4])[3], isHorizontal),
                RSub(AtAxis(seg[1], isHorizontal), where))
         /\ SmallDenominators(
                CubicSolutions(calcCubicParameters(seg[1], seg[2], seg[3], seg[4]),
                               where, isHorizontal))
    ELSE TRUE

\* Arguments of the calls: a line, a quadratic or a cubic from (0, 0) or
\* (1, 1) with its other points on a grid, a coordinate where, and isHorizontal as
\* False (0) or True (1); ts holds (where, isHorizontal).
MaxCoordX == 2

InitCoord ==
    /\ op = "none"
    /\ \E k \in 1..3 :
          seg1 \in {<<p0>> \o rest :
                       p0 \in {<<I(0), I(0)>>, <<I(1), I(1)>>},
                       rest \in [1..k -> {<<I(x), I(y)>> : x \in 0..MaxCoordX,
                                                          y \in 0..1}]}
    /\ seg2 = <<>>
    /\ ts \in {Zero, Half, One, I(2)} \X {Zero, One}
    /\ CoordIsExact(seg1, ts[1], ts[2])
    /\ result = Returned(<<>>)

\* splitLine(pt1, pt2, where, isHorizontal)
CallSplitLine ==
    /\ op = "none"
    /\ Len(seg1) = 2
    /\ op' = "splitLine"
    /\ result' = Returned(splitLine(seg1[1], seg1[2], ts[1], ts[2]))
    /\ UNCHANGED <<seg1, seg2, ts>>

\* splitQuadratic(pt1, pt2, pt3, where, isHorizontal)
CallSplitQuadratic ==
    /\ op = "none"
    /\ Len(seg1) = 3
    /\ op' = "splitQuadratic"
    /\ result' = Returned(splitQuadratic(seg1[1], seg1[2], seg1[3], ts[1], ts[2]))
    /\ UNCHANGED <<seg1, seg2, ts>>

\* splitCubic(pt1, pt2, pt3, pt4, where, isHorizontal)
CallSplitCubic ==
    /\ op = "none"
    /\ Len(seg1) = 4
    /\ op' = "splitCubic"
    /\ result' = Returned(splitCubic(seg1[1], seg1[2], seg1[3], seg1[4], ts[1], ts[2]))
    /\ UNCHANGED <<seg1, seg2, ts>>

NextCoord ==
    \/ CallSplitLine
    \/ CallSplitQuadratic
    \/ CallSplitCubic

SpecCoord == InitCoord /\ [][NextCoord]_vars


\* 0 <= t < 1
InHalfOpenUnit(t) == RLe(Zero, t) /\ RLt(t, One)

\* the roots the solver returns for the curve seg1, the coordinate ts[1] and
\* the axis ts[2]
CoordSolutions ==
    IF Len(seg1) = 3
    THEN QuadraticSolutions(calcQuadraticParameters(seg1[1], seg1[2], seg1[3]),
                            ts[1], ts[2])
    ELSE CubicSolutions(calcCubicParameters(seg1[1], seg1[2], seg1[3], seg1[4]),
                        ts[1], ts[2])

\* segs is seg itself when no root is kept, and otherwise seg split at the
\* kept roots in ascending order, one segment more than there are roots
SplitContract(segs, seg, kept) ==
    IF kept = <<>> THEN segs = <<seg>>
    ELSE /\ Len(segs) = Len(kept) + 1
         /\ segs = IF Len(seg) = 3
                   THEN splitQuadraticAtT(seg[1], seg[2], seg[3], sorted(kept))
                   ELSE splitCubicAtT(seg[1], seg[2], seg[3], seg[4], sorted(kept))

Selected(pt, isHorizontal) == IF isHorizontal = One THEN pt[2] ELSE pt[1]

\* what splitLine is to return, extent being the selected extent of the line
LineContract(segs, pt1, pt2, where, isHorizontal, extent) ==
    IF \/ extent = Zero
       \/ ~InHalfOpenUnit(RDiv(RSub(where, Selected(pt1, isHorizontal)), extent))
    THEN segs = << <<pt1, pt2>> >>
    ELSE /\ Len(segs) = 2
         /\ segs[1][1] = pt1
         /\ segs[2][2] = pt2
         /\ segs[1][2] = segs[2][1]
         /\ Selected(segs[1][2], isHorizontal) = where

\* C15: splitLine(pt1, pt2, where, isHorizontal) returns the line alone when
\* its extent on the selected axis is 0 or when t = (where - start)/extent is
\* outside [0, 1), and otherwise the two lines (pt1, mid), (mid, pt2) with
\* the selected coordinate of mid equal to where; t = 0 splits, t = 1 does
\* not; isHorizontal true selects y.
C15_SplitLine ==
    op = "splitLine" =>
        LineContract(result.val, seg1[1], seg1[2], ts[1], ts[2],
                     RSub(Selected(seg1[2], ts[2]), Selected(seg1[1], ts[2])))

\* a crossing at t = 0 of a line that is not parallel to the ray: two
\* lines, the first one degenerate
C15_Witness ==
    /\ op = "splitLine"
    /\ Len(result.val) = 2
    /\ result.val[1][1] = result.val[1][2]
    /\ seg1[1] # seg1[2]


-----------------------------------------------------------------------------
(* Arc length.  The routines take the points as complex numbers, here the  *)
(* pairs (real, imaginary).                                                *)

VAdd(v, w) == <<RAdd(v[1], w[1]), RAdd(v[2], w[2])>>
VSub(v, w) == <<RSub(v[1], w[1]), RSub(v[2], w[2])>>
VScale(v, k) == <<RMul(v[1], k), RMul(v[2], k)>>

\* abs(z) of a complex z, where it is rational
CAbs(v) ==
    IF v[2] = Zero THEN RAbs(v[1])
    ELSE IF v[1] = Zero THEN RAbs(v[2])
    ELSE Sqrt(RAdd(RMul(v[1], v[1]), RMul(v[2], v[2])))

\* (v1 * v2.conjugate()).real
_dot(v1, v2) == RAdd(RMul(v1[1], v2[1]), RMul(v1[2], v2[2]))

\* a plausible slip: the plain average of the four control points as mid
_split_cubic_into_two_average(p0, p1, p2, p3) ==
    LET mid == VScale(VAdd(VAdd(p0, VAdd(p1, p2)), p3), Rat(1, 4))
        deriv3 == VScale(VSub(VSub(VAdd(p3, p2), p1), p0), Rat(1, 8))
    IN  << <<p0, VScale(VAdd(p0, p1), Half), VSub(mid, deriv3), mid>>,
           <<mid, VAdd(mid, deriv3), VScale(VAdd(p2, p3), Half), p3>> >>

_split_cubic_into_two(p0, p1, p2, p3) ==
    LET mid == VScale(VAdd(VAdd(p0, VScale(VAdd(p1, p2), I(3))), p3), Rat(1, 8))
        deriv3 == VScale(VSub(VSub(VAdd(p3, p2), p1), p0), Rat(1, 8))
    IN  << <<p0, VScale(VAdd(p0, p1), Half), VSub(mid, deriv3), mid>>,
           <<mid, VAdd(mid, deriv3), VScale(VAdd(p2, p3), Half), p3>> >>

\* arch = abs(p0-p3)
Arch(p) == CAbs(VSub(p[1], p[4]))

\* box = abs(p0-p1) + abs(p1-p2) + abs(p2-p3)
Box(p) ==
    RAdd(RAdd(CAbs(VSub(p[1], p[2])), CAbs(VSub(p[2], p[3]))),
         CAbs(VSub(p[3], p[4])))

\* arch * mult >= box
IsFlat(mult, p) == RLe(Box(p), RMul(Arch(p), mult))

RECURSIVE _calcCubicArcLengthCRecurse(_, _)
\* the sum of the lengths of the two halves
HalvesLength(mult, halves) ==
    RAdd(_calcCubicArcLengthCRecurse(mult, halves[1]),
         _calcCubicArcLengthCRecurse(mult, halves[2]))

_calcCubicArcLengthCRecurse(mult, p) ==
    IF IsFlat(mult, p) THEN RMul(RAdd(Arch(p), Box(p)), Half)
    ELSE HalvesLength(mult, _split_cubic_into_two(p[1], p[2], p[3], p[4]))

\* a plausible slip: the multiplier shrinking as the tolerance grows
Mult_decreasing(tolerance) == RAdd(One, RMul(Rat(3, 2), RSub(One, tolerance)))

\* mult = 1. + 1.5 * tolerance
Mult(tolerance) == RAdd(One, RMul(Rat(3, 2), tolerance))

calcCubicArcLengthC(pt1, pt2, pt3, pt4, tolerance) ==
    _calcCubicArcLengthCRecurse(Mult(tolerance), <<pt1, pt2, pt3, pt4>>)

\* The calls of _calcCubicArcLengthCRecurse that subdivide, each named by
\* its path from the root (1 = first half, 2 = second half), down to the
\* depth MaxArcDepth
MaxArcDepth == 5

RECURSIVE Subdivided(_, _, _)
SubdividedHalves(mult, halves, path) ==
    Subdivided(mult, halves[1], Append(path, 1))
    \cup Subdivided(mult, halves[2], Append(path, 2))

Subdivided(mult, p, path) ==
    IF IsFlat(mult, p) THEN {}
    ELSE {path} \cup
         (IF Len(path) >= MaxArcDepth THEN {}
          ELSE SubdividedHalves(mult, _split_cubic_into_two(p[1], p[2], p[3], p[4]),
                                path))

\* the recursion of calcCubicArcLengthC ends above the depth MaxArcDepth
CubicArcIsExact(seg, tolerance) ==
    \A path \in Subdivided(Mult(tolerance), seg, <<>>) : Len(path) < MaxArcDepth

\* 2 * (_intSecAtan(x1) - _intSecAtan(x0)) * origDist / (scale * (x1 - x0)):
\* not a rational, and defined for no argument
ParabolaLength(x0, x1, origDist, scale) == CHOOSE len \in {} : TRUE

\* a plausible slip: the length of the control polygon at a cusp
QuadraticArcLengthOf_polygon(d0, d1, n, chord) ==
    IF CAbs(n) = Zero THEN chord
    ELSE IF LtEpsilon(RAbs(_dot(n, d0)))
    THEN IF RLe(Zero, _dot(d0, d1)) THEN chord
         ELSE RAdd(CAbs(d0), CAbs(d1))
    ELSE RAbs(ParabolaLength(RDiv(_dot(VSub(d1, d0), d0), _dot(n, d0)),
                             RDiv(_dot(VSub(d1, d0), d1), _dot(n, d0)),
                             _dot(n, d0), CAbs(n)))

\* calcQuadraticArcLengthC from d0, d1 and n on, chord being abs(pt3-pt1)
QuadraticArcLengthOf(d0, d1, n, chord) ==
    IF CAbs(n) = Zero THEN chord
    ELSE IF LtEpsilon(RAbs(_dot(n, d0)))
    THEN IF RLe(Zero, _dot(d0, d1)) THEN chord
         ELSE RDiv(RAdd(RMul(CAbs(d0), CAbs(d0)), RMul(CAbs(d1), CAbs(d1))),
                   RAdd(CAbs(d0), CAbs(d1)))
    ELSE RAbs(ParabolaLength(RDiv(_dot(VSub(d1, d0), d0), _dot(n, d0)),
                             RDiv(_dot(VSub(d1, d0), d1), _dot(n, d0)),
                             _dot(n, d0), CAbs(n)))

\* n = d * 1j for d = d1 - d0
TimesJ(d) == <<RNeg(d[2]), d[1]>>

calcQuadraticArcLengthC(pt1, pt2, pt3) ==
    QuadraticArcLengthOf(VSub(pt2, pt1), VSub(pt3, pt2),
                         TimesJ(VSub(VSub(pt3, pt2), VSub(pt2, pt1))),
                         CAbs(VSub(pt3, pt1)))

\* Arguments of the calls.  Quadratics with three collinear control points,
\* on a line of direction (1, 0), (0, 1) or (3, 4), whose lengths are
\* rational; cubics from 0 along the real axis, with the tolerances ts[1]
\* of the call and ts[2] of a second call it is compared with, where the
\* recursion ends above MaxArcDepth for both.
MaxArc == 2

InitArc ==
    /\ op = "none"
    /\ seg2 = <<>>
    /\ \/ /\ \E dir \in {<<I(1), I(0)>>, <<I(0), I(1)>>, <<I(3), I(4)>>} :
                seg1 \in {[i \in 1..3 |-> VScale(dir, I(k[i]))] :
                             k \in [1..3 -> -MaxArc..MaxArc]}
          /\ ts = <<>>
       \/ /\ seg1 \in {<< <<I(0), I(0)>> >> \o [i \in 1..3 |-> <<I(k[i]), I(0)>>] :
                          k \in [1..3 -> -MaxArc..MaxArc]}
          /\ ts \in {Zero, Rat(1, 200), One, I(2)} \X {Zero, Rat(1, 200), One, I(2)}
          /\ CubicArcIsExact(seg1, ts[1])
          /\ CubicArcIsExact(seg1, ts[2])
    /\ result = Returned(<<>>)

\* calcQuadraticArcLength(pt1, pt2, pt3)
CallQuadraticArcLength ==
    /\ op = "none"
    /\ Len(seg1) = 3
    /\ op' = "calcQuadraticArcLength"
    /\ result' = Returned(calcQuadraticArcLengthC(seg1[1], seg1[2], seg1[3]))
    /\ UNCHANGED <<seg1, seg2, ts>>

\* calcCubicArcLength(pt1, pt2, pt3, pt4, tolerance)
CallCubicArcLength ==
    /\ op = "none"
    /\ Len(seg1) = 4
    /\ op' = "calcCubicArcLength"
    /\ result' = Returned(calcCubicArcLengthC(seg1[1], seg1[2], seg1[3], seg1[4],
                                              ts[1]))
    /\ UNCHANGED <<seg1, seg2, ts>>

NextArc ==
    \/ CallQuadraticArcLength
    \/ CallCubicArcLength

SpecArc == InitArc /\ [][NextArc]_vars


\* the cross product of two vectors: 0 when they are parallel
Cross(v, w) == RSub(RMul(v[1], w[2]), RMul(v[2], w[1]))

\* what calcQuadraticArcLength is to return for the legs d0 = P1 - P0 and
\* d1 = P2 - P1
QuadraticArcContract(len, d0, d1, chord) ==
    /\ RLe(Zero, len)
    /\ Cross(d0, d1) = Zero =>
          IF RLe(Zero, _dot(d0, d1)) THEN len = chord
          ELSE len = RDiv(RAdd(_dot(d0, d0), _dot(d1, d1)),
                          RAdd(CAbs(d0), CAbs(d1)))

MonotoneAlongChord(p) ==
    /\ Cross(VSub(p[2], p[1]), VSub(p[4], p[1])) = Zero
    /\ Cross(VSub(p[3], p[1]), VSub(p[4], p[1])) = Zero
    /\ RLe(Zero, _dot(VSub(p[2], p[1]), VSub(p[3], p[2])))
    /\ RLe(Zero, _dot(VSub(p[3], p[2]), VSub(p[4], p[3])))
    /\ RLe(Zero, _dot(VSub(p[2], p[1]), VSub(p[4], p[3])))

\* what calcCubicArcLength is to return for the multiplier mult, one and two
\* being the halves of the t = 0.5 subdivision
CubicArcContract(len, mult, p, one, two) ==
    /\ IF RLe(Box(p), RMul(Arch(p), mult))
       THEN len = RMul(RAdd(Arch(p), Box(p)), Half)
       ELSE /\ len = RAdd(_calcCubicArcLengthCRecurse(mult, one),
                          _calcCubicArcLengthCRecurse(mult, two))
            /\ one[1] = p[1]
            /\ two[4] = p[4]
            /\ one[4] = two[1]
            /\ one[4] = VScale(VAdd(VAdd(p[1], VScale(VAdd(p[2], p[3]), I(3))), p[4]),
                               Rat(1, 8))
    /\ MonotoneAlongChord(p) => len = Arch(p)

C18_MonotoneInTolerance ==
    (op = "calcCubicArcLength" /\ RLe(Zero, ts[1]) /\ RLe(ts[1], ts[2])) =>
        Subdivided(Mult(ts[2]), seg1, <<>>) \subseteq Subdivided(Mult(ts[1]), seg1, <<>>)

\* a looser tolerance that still subdivides, but less than the tighter one
C18_Witness ==
    /\ op = "calcCubicArcLength"
    /\ RLt(ts[1], ts[2])
    /\ Subdivided(Mult(ts[2]), seg1, <<>>) # {}
    /\ Subdivided(Mult(ts[2]), seg1, <<>>) # Subdivided(Mult(ts[1]), seg1, <<>>)


-----------------------------------------------------------------------------
(* The curve / curve recursion, one call of _curve_curve_intersections_t   *)
(* at a time.  The calls a call makes depend on the bounds of its two      *)
(* curves alone, never on the lists the inner calls return, so the calls   *)
(* that remain to be made are kept as a stack, the next call on top; a     *)
(* call is (curve1, curve2, range1, range2).  The interpreter bounds the   *)
(* depth of a recursion: a call deeper than MaxRecursionDepth raises       *)
(* RecursionError.                                                         *)
(*                                                                         *)
(* Coordinates are doubles.  ts is (steps taken, spacing): with spacing 0  *)
(* the coordinates are small dyadic numbers and every value the recursion  *)
(* computes is a double; with a spacing above 0 the coordinates are near   *)
(* LargeBase, where the doubles are that far apart, and seg1 and seg2 hold *)
(* them less LargeBase.  Differences of such coordinates, and their        *)
(* products with 0.5 and 0.25, are doubles; a sum with a coordinate is     *)
(* rounded to the nearest double, ties to the even one.                    *)

MaxRecursionDepth == 9

\* the doubles from 2^59 to 2^60 are 2^(59 - 52) apart; LargeBase = 3 * 2^58
\* is an even multiple of the spacing
DoubleSpacing == 128

\* the integer nearest to a rational, ties to the even one
RoundHalfEven(x) ==
    LET fl == x[1] \div x[2]
        twice == 2 * (x[1] - fl * x[2])
    IN  IF twice < x[2] THEN fl
        ELSE IF twice > x[2] THEN fl + 1
        ELSE IF fl % 2 = 0 THEN fl ELSE fl + 1

\* the double nearest to LargeBase + x, less LargeBase
ToDouble(x, spacing) ==
    IF spacing = 0 THEN x
    ELSE I(spacing * RoundHalfEven(RDiv(x, I(spacing))))

PointToDouble(pt, spacing) == <<ToDouble(pt[1], spacing), ToDouble(pt[2], spacing)>>

\* calcQuadraticPoints on the a1, b1, c1 of _splitQuadraticAtT: c1 is
\* rounded as it is computed, and b1 * 0.5 and a1 + b1 are added to the
\* rounded c1; exact is the piece in exact arithmetic
PieceInDoubles(exact, spacing) ==
    LET pt1 == PointToDouble(exact[1], spacing)
    IN  << pt1,
           PointToDouble(VAdd(VSub(exact[2], exact[1]), pt1), spacing),
           PointToDouble(VAdd(VSub(exact[3], exact[1]), pt1), spacing) >>

\* _split_segment_at_t(c, 0.5) of a quadratic
HalvesInDoubles(c, spacing) ==
    << PieceInDoubles(_split_segment_at_t(c, Half)[1], spacing),
       PieceInDoubles(_split_segment_at_t(c, Half)[2], spacing) >>

\* _curve_bounds(c) of a quadratic: the points at the roots are rounded,
\* the end points are doubles already, and rounding keeps the order
BoundsInDoubles(c, spacing) ==
    << ToDouble(_curve_bounds(c)[1], spacing), ToDouble(_curve_bounds(c)[2], spacing),
       ToDouble(_curve_bounds(c)[3], spacing), ToDouble(_curve_bounds(c)[4], spacing) >>

Running(pending) == [kind |-> "running", pending |-> pending]

\* the four calls on the halves, in the order they are made
CallsOnHalves(s1, s2, r1, r2) ==
    << <<s1[1], s2[1], <<r1[1], midpoint(r1)>>, <<r2[1], midpoint(r2)>> >>,
       <<s1[2], s2[1], <<midpoint(r1), r1[2]>>, <<r2[1], midpoint(r2)>> >>,
       <<s1[1], s2[2], <<r1[1], midpoint(r1)>>, <<midpoint(r2), r2[2]>> >>,
       <<s1[2], s2[2], <<midpoint(r1), r1[2]>>, <<midpoint(r2), r2[2]>> >> >>

\* the bounds of the two curves of a call do not intersect
BoundsDisjoint(call, spacing) ==
    ~sectRect(BoundsInDoubles(call[1], spacing), BoundsInDoubles(call[2], spacing))

\* the depth of a call: its ranges are 1 / 2^depth wide
Depth(call) ==
    CHOOSE d \in 0..(MaxRecursionDepth + 1) :
        RMul(I(2^d), RSub(call[3][2], call[3][1])) = One

\* both bounds of a call are below the precision
BoundsSmall(call, spacing) ==
    /\ BoxIsSmall(BoundsInDoubles(call[1], spacing))
    /\ BoxIsSmall(BoundsInDoubles(call[2], spacing))

\* Pairs of quadratics: a curve with itself, with its own first half, with
\* a curve it crosses, with a curve it touches at an end, with a curve far
\* from it, and the two thin curves.
Arch2 == << <<I(0), I(0)>>, <<I(1), I(2)>>, <<I(2), I(0)>> >>

RecursionArgs ==
    { <<Arch2, Arch2>>,
      <<Arch2, _split_segment_at_t(Arch2, Half)[1]>>,
      <<Arch2, << <<I(1), I(-1)>>, <<I(0), I(0)>>, <<I(1), I(2)>> >> >>,
      <<Arch2, << <<I(2), I(0)>>, <<I(3), I(-2)>>, <<I(4), I(0)>> >> >>,
      <<Arch2, << <<I(3), I(3)>>, <<I(4), I(5)>>, <<I(5), I(3)>> >> >>,
      <<ThinAcross, ThinUp>> }

\* Pairs of quadratics near LargeBase, less LargeBase: a curve with
\* itself, with a curve it crosses, and with a curve far from it.
Diagonal ==
    << <<I(0), I(0)>>, <<I(DoubleSpacing), I(DoubleSpacing)>>,
       <<I(2 * DoubleSpacing), I(2 * DoubleSpacing)>> >>

LargeArgs ==
    { <<Diagonal, Diagonal>>,
      <<Diagonal, << <<I(0), I(2 * DoubleSpacing)>>, <<I(DoubleSpacing), I(DoubleSpacing)>>,
                     <<I(2 * DoubleSpacing), I(0)>> >> >>,
      <<Diagonal, << <<I(4 * DoubleSpacing), I(0)>>, <<I(5 * DoubleSpacing), I(0)>>,
                     <<I(6 * DoubleSpacing), I(0)>> >> >> }

InitRecursion ==
    /\ op = "none"
    /\ \/ \E a \in RecursionArgs : seg1 = a[1] /\ seg2 = a[2] /\ ts = <<0, 0>>
       \/ \E a \in LargeArgs : seg1 = a[1] /\ seg2 = a[2] /\ ts = <<0, DoubleSpacing>>
    /\ result = Returned(<<>>)

\* _curve_curve_intersections_t(curve1, curve2) is called
EnterRecursion ==
    /\ op = "none"
    /\ op' = "_curve_curve_intersections_t"
    /\ result' = Running(<< <<seg1, seg2, <<Zero, One>>, <<Zero, One>> >> >>)
    /\ UNCHANGED <<seg1, seg2, ts>>

\* one more step of the running call
TakesStep ==
    /\ op = "_curve_curve_intersections_t"
    /\ ts' = <<ts[1] + 1, ts[2]>>

\* the call on top returns []: the bounds do not intersect
ReturnNothing ==
    /\ op = "_curve_curve_intersections_t"
    /\ result.pending # <<>>
    /\ BoundsDisjoint(Head(result.pending), ts[2])
    /\ result' = Running(Tail(result.pending))
    /\ TakesStep
    /\ UNCHANGED <<op, seg1, seg2>>

\* the call on top returns the pair of midpoints: both bounds are small
ReturnMidpoints ==
    /\ op = "_curve_curve_intersections_t"
    /\ result.pending # <<>>
    /\ ~BoundsDisjoint(Head(result.pending), ts[2])
    /\ BoundsSmall(Head(result.pending), ts[2])
    /\ result' = Running(Tail(result.pending))
    /\ TakesStep
    /\ UNCHANGED <<op, seg1, seg2>>

\* the call on top splits both curves and makes the four calls, unless
\* they would be too deep
Subdivide ==
    /\ op = "_curve_curve_intersections_t"
    /\ result.pending # <<>>
    /\ ~BoundsDisjoint(Head(result.pending), ts[2])
    /\ ~BoundsSmall(Head(result.pending), ts[2])
    /\ IF Depth(Head(result.pending)) < MaxRecursionDepth
       THEN /\ result' = Running(
                   CallsOnHalves(HalvesInDoubles(Head(result.pending)[1], ts[2]),
                                 HalvesInDoubles(Head(result.pending)[2], ts[2]),
                                 Head(result.pending)[3], Head(result.pending)[4])
                   \o Tail(result.pending))
            /\ UNCHANGED op
       ELSE /\ result' = Raised("RecursionError")
            /\ op' = "raised"
    /\ TakesStep
    /\ UNCHANGED <<seg1, seg2>>

\* no call remains: the outermost call has returned
LeaveRecursion ==
    /\ op = "_curve_curve_intersections_t"
    /\ result.pending = <<>>
    /\ op' = "returned"
    /\ TakesStep
    /\ UNCHANGED <<seg1, seg2, result>>

NextRecursion ==
    \/ EnterRecursion
    \/ ReturnNothing
    \/ ReturnMidpoints
    \/ Subdivide
    \/ LeaveRecursion

\* A call that has started goes on: the interpreter takes the next step of
\* a running call, and a running call always has one (the three cases of
\* the call on top are exhaustive, and with no call left the outermost
\* call returns).
SpecRecursion == InitRecursion /\ [][NextRecursion]_vars /\ WF_ts(TakesStep)

\* C19: the curve / curve recursion terminates for two quadratic or cubic
\* curves with finite coordinates: every call ends either on bounds that do
\* not intersect or on two bounds of area below the precision, overlapping
\* and identical curves included.
C19_Terminates == (op = "_curve_curve_intersections_t") ~> (op = "returned")

-----------------------------------------------------------------------------
(* The pairs the curve / curve recursion finds, before any is dropped.     *)

\* every pair of midpoints found under a call, in the order of the calls:
\* (c11, c21), (c12, c21), (c11, c22), (c12, c22)
RECURSIVE LeafPairs(_, _, _, _)
LeafPairsInHalves(s1, s2, r1, r2) ==
    LeafPairs(s1[1], s2[1], <<r1[1], midpoint(r1)>>, <<r2[1], midpoint(r2)>>)
    \o LeafPairs(s1[2], s2[1], <<midpoint(r1), r1[2]>>, <<r2[1], midpoint(r2)>>)
    \o LeafPairs(s1[1], s2[2], <<r1[1], midpoint(r1)>>, <<midpoint(r2), r2[2]>>)
    \o LeafPairs(s1[2], s2[2], <<midpoint(r1), r1[2]>>, <<midpoint(r2), r2[2]>>)

LeafPairsInBounds(curve1, curve2, bounds1, bounds2, r1, r2) ==
    IF ~sectRect(bounds1, bounds2) THEN <<>>
    ELSE IF BoxIsSmall(bounds1) /\ BoxIsSmall(bounds2)
    THEN << <<midpoint(r1), midpoint(r2)>> >>
    ELSE LeafPairsInHalves(_split_segment_at_t(curve1, Half),
                           _split_segment_at_t(curve2, Half), r1, r2)

LeafPairs(curve1, curve2, r1, r2) ==
    LeafPairsInBounds(curve1, curve2, _curve_bounds(curve1), _curve_bounds(curve2),
                      r1, r2)

\* floor(t1 / precision)
KeyOf(tpair) == (tpair[1][1] * PrecisionInv) \div tpair[1][2]

\* the places of the pairs that no earlier pair shares its key with
FirstPlaces(pairs) ==
    {i \in 1..Len(pairs) : \A j \in 1..(i - 1) : KeyOf(pairs[j]) # KeyOf(pairs[i])}

\* the k-th smallest of a set of places
NthPlace(places, k) ==
    CHOOSE i \in places : Cardinality({j \in places : j < i}) = k - 1

\* the first pair of every key, in the order of the pairs
FirstOfEachKey(pairs, places) ==
    [k \in 1..Cardinality(places) |-> pairs[NthPlace(places, k)]]

\* the (t1, t2) of the intersections returned
ReturnedPairs(intersections) ==
    [i \in 1..Len(intersections) |-> <<intersections[i].t1, intersections[i].t2>>]

DistinctKeys(pairs) ==
    \A i, j \in 1..Len(pairs) : i # j => KeyOf(pairs[i]) # KeyOf(pairs[j])

KeptFirstInOrder(kept, leaves) ==
    /\ DistinctKeys(kept)
    /\ kept = FirstOfEachKey(leaves, FirstPlaces(leaves))

\* C20: the list the curve / curve recursion returns has no two entries of
\* the same key floor(t1 / precision); the entry kept for a key is the
\* first pair of that key in the order of the recursion, (c1a, c2a),
\* (c1b, c2a), (c1a, c2b), (c1b, c2b), and the entries kept are in that
\* order.
C20_FirstOfEachKey ==
    (op = "curveCurveIntersections" /\ result.kind = "ok")
        => KeptFirstInOrder(ReturnedPairs(result.val),
                            LeafPairs(seg1, seg2, <<Zero, One>>, <<Zero, One>>))

\* two entries are returned and pairs were dropped for their keys
C20_Witness ==
    /\ op = "curveCurveIntersections"
    /\ result.kind = "ok"
    /\ Len(result.val) >= 2
    /\ Len(LeafPairs(seg1, seg2, <<Zero, One>>, <<Zero, One>>)) > Len(result.val)

-----------------------------------------------------------------------------
(* lineLineIntersections: the empty and the single result.                 *)

\* both end points of a segment coincide
Coincident(seg) == isclose(seg[1][1], seg[2][1]) /\ isclose(seg[1][2], seg[2][2])

Vertical(seg) == isclose(seg[1][1], seg[2][1])

Horizontal(seg) == isclose(seg[1][2], seg[2][2])

Slope(seg) == RDiv(RSub(seg[2][2], seg[1][2]), RSub(seg[2][1], seg[1][1]))

\* both vertical, both horizontal, or of slopes that are close
Parallel(a, b) ==
    \/ Vertical(a) /\ Vertical(b)
    \/ Horizontal(a) /\ Horizontal(b)
    \/ ~Vertical(a) /\ ~Vertical(b) /\ isclose(Slope(a), Slope(b))

\* C21: lineLineIntersections returns the empty list when either segment
\* has both end points coincident and when the two lines are parallel (both
\* vertical, both horizontal, or slopes equal under isclose); in every other
\* case it returns at most one Intersection.
C21_EmptyOrSingle ==
    (op = "lineLineIntersections") =>
        IF Coincident(seg1) \/ Coincident(seg2) \/ Parallel(seg1, seg2)
        THEN result = Returned(<<>>)
        ELSE result.kind = "ok" /\ Len(result.val) <= 1

-----------------------------------------------------------------------------
(* Arguments, module state and allocation.                                 *)
(*                                                                         *)
(* The calls are run one statement at a time on a store of objects.  The   *)
(* objects the caller holds (the curve, the line, the list of split        *)
(* parameters) and the module's epsilon and epsilonDigits are named; every *)
(* list or tuple a statement builds is a new object, referred to by its    *)
(* place in the sequence fresh.  seg1, seg2 and ts are the values the      *)
(* caller passed; op is the statement about to run, "none" between calls.  *)
(* result is the store: named, fresh, the local names of the running call  *)
(* (frame) and, for every call that has returned, the object returned and  *)
(* its value at that time (held).                                          *)

MaxCalls == 2

\* the reference of the object a statement builds next
FreshRef_cached(fresh) == IF fresh = <<>> THEN 1 ELSE Len(fresh)

FreshRef(fresh) == Len(fresh) + 1

\* the store with the value written to the object ref
Written(fresh, ref, value) ==
    IF ref > Len(fresh) THEN Append(fresh, value)
    ELSE [fresh EXCEPT ![ref] = value]

\* the store after a statement has built an object of the value
Built(fresh, value) == Written(fresh, FreshRef(fresh), value)

Store(named, fresh, frame, held) ==
    [kind |-> "store", named |-> named, fresh |-> fresh, frame |-> frame,
     held |-> held]

NoFrame == [ts |-> 0, aligned |-> 0, intersections |-> 0, abcd |-> <<>>]

\* the call returns the object ref
ReturnedObject(st, name, fresh, ref) ==
    Store(st.named, fresh, NoFrame,
          Append(st.held, [op |-> name, ref |-> ref, value |-> Returned(fresh[ref])]))

\* the call raises
RaisedIn(st, name, fresh, exc) ==
    Store(st.named, fresh, NoFrame,
          Append(st.held, [op |-> name, ref |-> 0, value |-> Raised(exc)]))

PureTLists == {<<>>, <<Half>>, <<Half, Rat(1, 4)>>}

PureQuadratics ==
    { << <<I(0), I(0)>>, <<I(1), I(1)>>, <<I(2), I(0)>> >>,
      << <<I(-1), I(1)>>, <<I(0), I(0)>>, <<I(1), I(1)>> >> }

InitPure ==
    /\ op = "none"
    /\ \/ \E a \in CurveLineArgs :
              CurveLineIsExact(a[1], a[2]) /\ seg1 = a[1] /\ seg2 = a[2]
       \/ seg1 \in PureQuadratics /\ seg2 \in Lines
    /\ ts \in PureTLists
    /\ result = Store([curve |-> seg1, line |-> seg2, tlist |-> ts,
                       epsilonDigits |-> epsilonDigits,
                       epsilon |-> Rat(1, EpsRoot)],
                      <<>>, NoFrame, <<>>)

\* splitQuadraticAtT(pt1, pt2, pt3, *ts) or splitCubicAtT(pt1, ..., *ts) is
\* called with the caller's list unpacked: the parameters arrive in a tuple
\* of their own, which _splitQuadraticAtT(a, b, c, *ts) receives
PackTs ==
    /\ op = "none"
    /\ Len(result.held) < MaxCalls
    /\ op' = "ts = list(ts)"
    /\ result' = Store(result.named, Built(result.fresh, result.named.tlist),
                       [result.frame EXCEPT !.ts = FreshRef(result.fresh)],
                       result.held)
    /\ UNCHANGED <<seg1, seg2, ts>>

\* ts = list(ts)
ListOfTs ==
    /\ op = "ts = list(ts)"
    /\ op' = "ts.insert(0, 0.0)"
    /\ result' = Store(result.named,
                       Built(result.fresh, result.fresh[result.frame.ts]),
                       [result.frame EXCEPT !.ts = FreshRef(result.fresh)],
                       result.held)
    /\ UNCHANGED <<seg1, seg2, ts>>

\* ts.insert(0, 0.0)
InsertZero ==
    /\ op = "ts.insert(0, 0.0)"
    /\ op' = "ts.append(1.0)"
    /\ result' = Store(result.named,
                       Written(result.fresh, result.frame.ts,
                               <<Zero>> \o result.fresh[result.frame.ts]),
                       result.frame, result.held)
    /\ UNCHANGED <<seg1, seg2, ts>>

\* ts.append(1.0)
AppendOne ==
    /\ op = "ts.append(1.0)"
    /\ op' = "return segments"
    /\ result' = Store(result.named,
                       Written(result.fresh, result.frame.ts,
                               Append(result.fresh[result.frame.ts], One)),
                       result.frame, result.held)
    /\ UNCHANGED <<seg1, seg2, ts>>

\* the pieces between the consecutive parameters of tt
PiecesOf(curve, tt) ==
    IF Len(curve) = 3
    THEN LET p == calcQuadraticParameters(curve[1], curve[2], curve[3])
         IN  [i \in 1..(Len(tt) - 1) |->
                 QuadraticPiece(p[1], p[2], p[3], tt[i], tt[i + 1])]
    ELSE LET p == calcCubicParameters(curve[1], curve[2], curve[3], curve[4])
         IN  [i \in 1..(Len(tt) - 1) |->
                 CubicPiece(p[1], p[2], p[3], p[4], tt[i], tt[i + 1])]

\* segments = []; the loop appends every piece; return segments
ReturnSegments ==
    /\ op = "return segments"
    /\ op' = "none"
    /\ result' = ReturnedObject(result, "splitAtT",
                     Built(result.fresh,
                           PiecesOf(result.named.curve, result.fresh[result.frame.ts])),
                     FreshRef(result.fresh))
    /\ UNCHANGED <<seg1, seg2, ts>>

\* _curve_line_intersections_t(curve, line):
\* aligned_curve = _alignment_transformation(line).transformPoints(curve)
AlignCurve ==
    /\ op = "none"
    /\ Len(result.held) < MaxCalls
    /\ op' = "intersections = solve"
    /\ result' = Store(result.named,
                       Built(result.fresh,
                             AlignedCurve(result.named.curve, result.named.line)),
                       [result.frame EXCEPT !.aligned = FreshRef(result.fresh)],
                       result.held)
    /\ UNCHANGED <<seg1, seg2, ts>>

\* a, b, c, d = calcCubicParameters(*aligned_curve), which three points do
\* not satisfy; intersections = solveCubic(a[0], b[0], c[0], d[0])
SolveFirst ==
    /\ op = "intersections = solve"
    /\ IF Len(result.fresh[result.frame.aligned]) = 3
       THEN /\ op' = "none"
            /\ result' = RaisedIn(result, "_curve_line_intersections_t",
                                  result.fresh, "TypeError")
       ELSE /\ op' = "intersections.extend"
            /\ result' =
                 LET p == AlignedCubicParameters(result.fresh[result.frame.aligned])
                 IN  Store(result.named,
                           Built(result.fresh,
                                 solveCubic(p[1][1], p[2][1], p[3][1], p[4][1])),
                           [result.frame EXCEPT !.intersections = FreshRef(result.fresh),
                                                !.abcd = p],
                           result.held)
    /\ UNCHANGED <<seg1, seg2, ts>>

\* the store after list.extend(other), other a new list of the value
Extended(fresh, ref, value) ==
    Written(Built(fresh, value), ref, fresh[ref] \o Built(fresh, value)[FreshRef(fresh)])

\* intersections.extend(solveCubic(a[1], b[1], c[1], d[1]))
ExtendWithSecond ==
    /\ op = "intersections.extend"
    /\ op' = "return sorted"
    /\ result' =
         LET p == result.frame.abcd
         IN  Store(result.named,
                   Extended(result.fresh, result.frame.intersections,
                            solveCubic(p[1][2], p[2][2], p[3][2], p[4][2])),
                   result.frame, result.held)
    /\ UNCHANGED <<seg1, seg2, ts>>

\* return sorted([i for i in intersections if (0.0 <= i <= 1)])
ReturnSorted ==
    /\ op = "return sorted"
    /\ op' = "none"
    /\ result' = ReturnedObject(result, "_curve_line_intersections_t",
                     Built(result.fresh,
                           sorted(RootsInUnit(result.fresh[result.frame.intersections]))),
                     FreshRef(result.fresh))
    /\ UNCHANGED <<seg1, seg2, ts>>

NextPure ==
    \/ PackTs
    \/ ListOfTs
    \/ InsertZero
    \/ AppendOne
    \/ ReturnSegments
    \/ AlignCurve
    \/ SolveFirst
    \/ ExtendWithSecond
    \/ ReturnSorted

SpecPure == InitPure /\ [][NextPure]_vars

\* the caller's objects are as they were passed
ArgumentsKept(st) ==
    /\ st.named.curve = seg1
    /\ st.named.line = seg2
    /\ st.named.tlist = ts

ModuleStateKept(st) ==
    /\ st.named.epsilonDigits = epsilonDigits
    /\ st.named.epsilon = Rat(1, EpsRoot)

\* every list a call returned is an object of its own, still of the value
\* it had when it was returned
ReturnedListsFresh(st) ==
    \A i \in 1..Len(st.held) :
        st.held[i].value.kind = "ok" =>
            /\ st.held[i].value.val = st.fresh[st.held[i].ref]
            /\ \A j \in 1..Len(st.held) : i # j => st.held[j].ref # st.held[i].ref

\* two calls of the same operation gave equal results
EqualResults(st) ==
    \A i, j \in 1..Len(st.held) :
        st.held[i].op = st.held[j].op => st.held[i].value = st.held[j].value

\* the values the functions of the model give for the same arguments
AsComputed(st) ==
    \A i \in 1..Len(st.held) :
        st.held[i].value =
            IF st.held[i].op = "_curve_line_intersections_t"
            THEN _curve_line_intersections_t(seg1, seg2)
            ELSE IF Len(seg1) = 3
            THEN Returned(splitQuadraticAtT(seg1[1], seg1[2], seg1[3], ts))
            ELSE Returned(splitCubicAtT(seg1[1], seg1[2], seg1[3], seg1[4], ts))

\* C22: no operation modifies its arguments (points, segments, the list of
\* split parameters) or writes the module's epsilon and epsilonDigits;
\* every returned list is newly allocated, so calls with the same inputs,
\* in any order and between other calls, give equal results.
C22_PurelyFunctional ==
    /\ ArgumentsKept(result)
    /\ ModuleStateKept(result)
    /\ ReturnedListsFresh(result)
    /\ EqualResults(result)
    /\ AsComputed(result)

\* a split with parameters, then the intersection search, have returned
C22_Witness ==
    /\ op = "none"
    /\ Len(result.held) = 2
    /\ ts # <<>>
    /\ result.held[1].op = "splitAtT"
    /\ result.held[2].op = "_curve_line_intersections_t"
    /\ result.held[2].value.kind = "ok"
    /\ result.held[2].value.val # <<>>

-----------------------------------------------------------------------------
(* Cu2QuPen: a segment pen that passes what is drawn on to another pen,    *)
(* cubic curves converted to quadratic splines.                            *)
(*                                                                         *)
(* result is the pen: start_pt, current_pt, stats (None or the count of    *)
(* converted curves by number of off-curve points), the calls the other    *)
(* pen has received (events), and what the last call raised ("" when it    *)
(* returned).  op is the last method called, seg1 its points, and ts is    *)
(* (ignore_single_points).  reverse_direction is False.  seg2 is the       *)
(* caller's place in the contour protocol: the point of its accepted       *)
(* moveTo, until its closePath or endPath is accepted.                     *)

MaxPenEvents == 3
MaxOffCurve == 2

Event(name, args) == [name |-> name, args |-> args]

Pen(start_pt, current_pt, stats, events, raised) ==
    [kind |-> "pen", start_pt |-> start_pt, current_pt |-> current_pt,
     stats |-> stats, events |-> events, raised |-> raised]

\* self.pen.<name>(*args)
Forward(p, name, args) == [p EXCEPT !.events = Append(@, Event(name, args))]

\* raise AssertionError(message)
AssertionError(p, message) == [p EXCEPT !.raised = message]

\* the message of a failed assert statement, which has none
AssertFailed == "AssertionError"

_add_moveTo(p) ==
    IF p.start_pt # None
    THEN [Forward(p, "moveTo", <<p.start_pt>>) EXCEPT !.start_pt = None]
    ELSE p

\* a plausible slip: the check of the open contour left out of moveTo
moveTo_unchecked(p, pt, ignore_single_points) ==
    IF ~ignore_single_points
    THEN _add_moveTo([p EXCEPT !.start_pt = pt, !.current_pt = pt])
    ELSE [p EXCEPT !.start_pt = pt, !.current_pt = pt]

moveTo(p, pt, ignore_single_points) ==
    IF p.current_pt # None
    THEN AssertionError(p, "closePath or endPath is required")
    ELSE IF ~ignore_single_points
    THEN _add_moveTo([p EXCEPT !.start_pt = pt, !.current_pt = pt])
    ELSE [p EXCEPT !.start_pt = pt, !.current_pt = pt]

\* a plausible slip: the pending moveTo is not passed on before the line
lineTo_noMoveTo(p, pt) ==
    IF p.current_pt = None THEN AssertionError(p, "moveTo is required")
    ELSE [Forward(p, "lineTo", <<pt>>) EXCEPT !.current_pt = pt]

lineTo(p, pt) ==
    IF p.current_pt = None THEN AssertionError(p, "moveTo is required")
    ELSE [Forward(_add_moveTo(p), "lineTo", <<pt>>) EXCEPT !.current_pt = pt]

\* a plausible slip: the pending moveTo is passed on before the points are
\* counted
qCurveTo_eager(p, points) ==
    IF p.current_pt = None THEN AssertionError(p, "moveTo is required")
    ELSE IF Len(points) = 1
    THEN IF points[1] = None THEN AssertionError(_add_moveTo(p), AssertFailed)
         ELSE lineTo(p, points[1])
    ELSE IF Len(points) > 1
    THEN [Forward(_add_moveTo(p), "qCurveTo", points)
             EXCEPT !.current_pt = points[Len(points)]]
    ELSE AssertionError(_add_moveTo(p), "illegal qcurve segment point count: 0")

qCurveTo(p, points) ==
    IF p.current_pt = None THEN AssertionError(p, "moveTo is required")
    ELSE IF Len(points) = 1
    THEN IF points[1] = None THEN AssertionError(p, AssertFailed)
         ELSE lineTo(p, points[1])
    ELSE IF Len(points) > 1
    THEN [Forward(_add_moveTo(p), "qCurveTo", points)
             EXCEPT !.current_pt = points[Len(points)]]
    ELSE AssertionError(p, "illegal qcurve segment point count: 0")

\* fontTools.cu2qu.curve_to_quadratic(curve, max_err): a quadratic spline
\* from curve[0] to curve[3] with n off-curve points, which stand here for
\* any points
OffCurve == <<I(7), I(7)>>

curve_to_quadratic(curve, n) ==
    <<curve[1]>> \o [i \in 1..n |-> OffCurve] \o <<curve[4]>>

\* self.stats[n] = self.stats.get(n, 0) + 1, n the number of off-curve points
Counted(stats, n) ==
    IF stats = None THEN stats ELSE [stats EXCEPT ![n] = @ + 1]

\* a plausible slip: the cubic is passed on as it is
_curve_to_quadratic_asCubic(p, pt1, pt2, pt3, n) ==
    [Forward(_add_moveTo(p), "curveTo", <<pt1, pt2, pt3>>) EXCEPT !.current_pt = pt3]

_curve_to_quadratic(p, pt1, pt2, pt3, n) ==
    qCurveTo([p EXCEPT !.stats = Counted(p.stats, n)],
             Tail(curve_to_quadratic(<<p.current_pt, pt1, pt2, pt3>>, n)))

\* fontTools.pens.basePen.decomposeSuperBezierSegment(points): one cubic
\* for each off-curve point but the first, the last one ending at the last
\* point; the points it computes in between stand here as one point
Between == <<I(5), I(5)>>

decomposeSuperBezierSegment(points) ==
    [i \in 1..(Len(points) - 2) |->
        IF i = Len(points) - 2
        THEN <<Between, points[Len(points) - 1], points[Len(points)]>>
        ELSE <<Between, Between, Between>>]

\* for segment in segments: self._curve_to_quadratic(*segment)
RECURSIVE EachConverted(_, _, _)
EachConverted(p, segments, n) ==
    IF segments = <<>> THEN p
    ELSE EachConverted(_curve_to_quadratic(p, segments[1][1], segments[1][2],
                                           segments[1][3], n),
                       Tail(segments), n)

curveTo(p, points, n) ==
    IF p.current_pt = None THEN AssertionError(p, "moveTo is required")
    ELSE IF Len(points) = 3
    THEN _curve_to_quadratic(p, points[1], points[2], points[3], n)
    ELSE IF Len(points) > 3
    THEN EachConverted(p, decomposeSuperBezierSegment(points), n)
    ELSE IF Len(points) = 2 THEN qCurveTo(p, points)
    ELSE IF Len(points) = 1 THEN lineTo(p, points[1])
    ELSE AssertionError(p, "illegal curve segment point count: 0")

closePath(p) ==
    IF p.current_pt = None THEN AssertionError(p, "moveTo is required")
    ELSE [(IF p.start_pt = None THEN Forward(p, "closePath", <<>>) ELSE p)
             EXCEPT !.current_pt = None, !.start_pt = None]

endPath(p) ==
    IF p.current_pt = None THEN AssertionError(p, "moveTo is required")
    ELSE [(IF p.start_pt = None THEN Forward(p, "endPath", <<>>) ELSE p)
             EXCEPT !.current_pt = None, !.start_pt = None]

addComponent(p, glyphName, transformation) ==
    IF p.current_pt # None
    THEN AssertionError(p, "closePath or endPath is required")
    ELSE Forward(p, "addComponent", <<glyphName, transformation>>)

\* Points to draw with; a quadratic may end on None, and any point of a
\* qCurveTo may be None.
PenPts == {<<I(0), I(0)>>, <<I(1), I(2)>>}

QCurvePoints ==
    {<<>>} \cup [1..1 -> PenPts \cup {None}]
    \cup [1..2 -> {<<I(1), I(2)>>, None}]

CurvePoints ==
    {<<>>} \cup UNION {{[i \in 1..k |-> IF i = k THEN e ELSE <<I(1), I(2)>>] :
                           e \in PenPts} : k \in 1..4}

InitPen ==
    /\ op = "none"
    /\ seg1 = <<>>
    /\ seg2 = <<>>
    /\ ts \in {<<FALSE>>, <<TRUE>>}
    /\ \E stats \in {None, [n \in 1..MaxOffCurve |-> 0]} :
           result = Pen(None, None, stats, <<>>, "")

\* the pen as a call finds it: nothing raised yet
Called == [result EXCEPT !.raised = ""]

CanCall == Len(result.events) < MaxPenEvents

CallMoveTo ==
    /\ CanCall
    /\ \E pt \in PenPts :
           /\ seg1' = <<pt>>
           /\ result' = moveTo(Called, pt, ts[1])
           /\ seg2' = IF result'.raised = "" THEN <<pt>> ELSE seg2
    /\ op' = "moveTo"
    /\ UNCHANGED ts

CallLineTo ==
    /\ CanCall
    /\ \E pt \in PenPts :
           /\ seg1' = <<pt>>
           /\ result' = lineTo(Called, pt)
    /\ op' = "lineTo"
    /\ UNCHANGED <<seg2, ts>>

CallQCurveTo ==
    /\ CanCall
    /\ \E points \in QCurvePoints :
           /\ seg1' = points
           /\ result' = qCurveTo(Called, points)
    /\ op' = "qCurveTo"
    /\ UNCHANGED <<seg2, ts>>

CallCurveTo ==
    /\ CanCall
    /\ \E points \in CurvePoints, n \in 1..MaxOffCurve :
           /\ seg1' = points
           /\ result' = curveTo(Called, points, n)
    /\ op' = "curveTo"
    /\ UNCHANGED <<seg2, ts>>

CallClosePath ==
    /\ CanCall
    /\ seg1' = <<>>
    /\ result' = closePath(Called)
    /\ seg2' = IF result'.raised = "" THEN <<>> ELSE seg2
    /\ op' = "closePath"
    /\ UNCHANGED ts

CallEndPath ==
    /\ CanCall
    /\ seg1' = <<>>
    /\ result' = endPath(Called)
    /\ seg2' = IF result'.raised = "" THEN <<>> ELSE seg2
    /\ op' = "endPath"
    /\ UNCHANGED ts

CallAddComponent ==
    /\ CanCall
    /\ seg1' = <<>>
    /\ result' = addComponent(Called, "a", <<1, 0, 0, 1, 0, 0>>)
    /\ op' = "addComponent"
    /\ UNCHANGED <<seg2, ts>>

NextPen ==
    \/ CallMoveTo
    \/ CallLineTo
    \/ CallQCurveTo
    \/ CallCurveTo
    \/ CallClosePath
    \/ CallEndPath
    \/ CallAddComponent

SpecPen == InitPen /\ [][NextPen]_vars

-----------------------------------------------------------------------------
(* What a call has passed on to the other pen.                             *)

\* the events one step adds
NewEvents == SubSeq(result'.events, Len(result.events) + 1, Len(result'.events))

\* the same without the pending moveTo the call passed on first
NewSegments ==
    IF NewEvents # <<>> /\ NewEvents[1].name = "moveTo"
    THEN Tail(NewEvents) ELSE NewEvents

EndOf(event) == event.args[Len(event.args)]

IsQuadratic(event) == event.name \in {"qCurveTo", "lineTo"}

\* C23: the other pen never receives curveTo.  A curveTo on an open contour
\* with 3 points is passed on as one qCurveTo (or lineTo) that ends at the
\* cubic's end point; with more than 3 points as one such segment for each
\* cubic of the decomposition, the last ending at the last point; with 2
\* points as qCurveTo of these points; with 1 point as lineTo to it; and a
\* curveTo with no points raises AssertionError.
C23_ConvertsEach ==
    /\ \A i \in 1..Len(result'.events) : result'.events[i].name # "curveTo"
    /\ (op' = "curveTo" /\ result.current_pt # None) =>
          /\ Len(seg1') = 3 =>
                /\ result'.raised = ""
                /\ Len(NewSegments) = 1
                /\ IsQuadratic(NewSegments[1])
                /\ EndOf(NewSegments[1]) = seg1'[3]
          /\ Len(seg1') > 3 =>
                /\ result'.raised = ""
                /\ Len(NewSegments) = Len(decomposeSuperBezierSegment(seg1'))
                /\ \A i \in 1..Len(NewSegments) : IsQuadratic(NewSegments[i])
                /\ EndOf(NewSegments[Len(NewSegments)]) = seg1'[Len(seg1')]
          /\ Len(seg1') = 2 =>
                NewSegments = <<Event("qCurveTo", seg1')>>
          /\ Len(seg1') = 1 =>
                NewSegments = <<Event("lineTo", seg1')>>
          /\ Len(seg1') > 0 => result'.current_pt = seg1'[Len(seg1')]
    /\ (op' = "curveTo" /\ Len(seg1') = 0) =>
          /\ result'.raised # ""
          /\ NewEvents = <<>>

C23_ConvertsEveryCubic == [][C23_ConvertsEach]_vars

\* a superbezier of four points has been converted to two quadratics
C23_Witness ==
    /\ op = "curveTo"
    /\ Len(seg1) = 4
    /\ result.raised = ""
    /\ Len(result.events) = 3
    /\ result.events[2].name = "qCurveTo"
    /\ result.events[3].name = "qCurveTo"
    /\ EndOf(result.events[3]) = seg1[4]

-----------------------------------------------------------------------------
(* Contours of a single point.                                             *)

Accepted(method, p) == p.raised = "" /\ method # "none"

SegmentMethods == {"lineTo", "qCurveTo", "curveTo"}

NoMoveTo(events) == \A i \in 1..Len(events) : events[i].name # "moveTo"

\* C24: with ignore_single_points an accepted moveTo passes nothing on, and
\* neither does a closePath or endPath that follows it directly; a segment
\* that follows it directly passes on that moveTo first, once, and then
\* the segment, and a segment after a segment passes on no moveTo.  Without
\* ignore_single_points an accepted moveTo is passed on at once and every
\* accepted closePath or endPath is passed on.
C24_Step ==
    /\ ts[1] =>
          /\ (op' = "moveTo" /\ Accepted(op', result')) => NewEvents = <<>>
          /\ (op = "moveTo" /\ Accepted(op, result)
                  /\ op' \in {"closePath", "endPath"}) =>
                /\ Accepted(op', result')
                /\ NewEvents = <<>>
          /\ (op = "moveTo" /\ Accepted(op, result)
                  /\ op' \in SegmentMethods /\ Accepted(op', result')) =>
                /\ NewEvents[1] = Event("moveTo", seg1)
                /\ NewSegments # <<>>
                /\ NoMoveTo(NewSegments)
          /\ (op \in SegmentMethods /\ Accepted(op, result)
                  /\ op' \in SegmentMethods /\ Accepted(op', result')) =>
                /\ NewEvents # <<>>
                /\ NoMoveTo(NewEvents)
    /\ ~ts[1] =>
          /\ (op' = "moveTo" /\ Accepted(op', result')) =>
                NewEvents = <<Event("moveTo", seg1')>>
          /\ (op' \in {"closePath", "endPath"} /\ Accepted(op', result')) =>
                NewEvents = <<Event(op', <<>>)>>

C24_NoSinglePoints == [][C24_Step]_vars

\* with ignore_single_points, the moveTo was passed on right before the
\* first segment of its contour and not before
C24_Witness ==
    /\ ts[1]
    /\ op = "lineTo"
    /\ Accepted(op, result)
    /\ seg2 = <<<<I(1), I(2)>>>>
    /\ result.events = <<Event("moveTo", seg2), Event("lineTo", seg1)>>

-----------------------------------------------------------------------------
(* The events the other pen receives, as a stream of contours.             *)

\* where the stream is after the events: in a contour ("open"), between
\* contours ("closed"), or "broken" when an event came where the protocol
\* of segment pens does not allow it
RECURSIVE StreamAfter(_, _)
StreamAfter(events, stream) ==
    IF events = <<>> THEN stream
    ELSE IF events[1].name \in {"moveTo", "addComponent"}
    THEN IF stream # "closed" THEN "broken"
         ELSE StreamAfter(Tail(events),
                          IF events[1].name = "moveTo" THEN "open" ELSE "closed")
    ELSE IF stream # "open" THEN "broken"
    ELSE StreamAfter(Tail(events),
                     IF events[1].name \in {"closePath", "endPath"}
                     THEN "closed" ELSE "open")

\* C26: after every sequence of calls, the events the other pen has
\* received are well-formed: every lineTo, qCurveTo, closePath and endPath
\* lies between a moveTo and the closePath or endPath of its contour, and
\* no moveTo or addComponent comes while a contour is open.
C26_WellFormedStream == StreamAfter(result.events, "closed") # "broken"

-----------------------------------------------------------------------------
(* The contour protocol the pen asks of its caller.                        *)

\* the caller has a contour open: its moveTo was accepted, and no closePath
\* or endPath since
ContourOpen == seg2 # <<>>

\* C27: lineTo, qCurveTo, curveTo, closePath and endPath raise
\* AssertionError('moveTo is required') when the caller has no contour
\* open; moveTo and addComponent raise AssertionError('closePath or endPath
\* is required') while it has one open; and after an accepted closePath or
\* endPath current_pt and start_pt are None and a moveTo is accepted.
C27_Step ==
    /\ (~ContourOpen /\ op' \in SegmentMethods \cup {"closePath", "endPath"}) =>
          result'.raised = "moveTo is required"
    /\ (ContourOpen /\ op' \in {"moveTo", "addComponent"}) =>
          result'.raised = "closePath or endPath is required"
    /\ (op' \in {"closePath", "endPath"} /\ Accepted(op', result')) =>
          /\ result'.current_pt = None
          /\ result'.start_pt = None
    /\ (op \in {"closePath", "endPath"} /\ Accepted(op, result)
            /\ op' = "moveTo") =>
          Accepted(op', result')

C27_ContourProtocol == [][C27_Step]_vars

-----------------------------------------------------------------------------
(* Calls that raise.                                                       *)

\* C28: a call that raises AssertionError leaves start_pt, current_pt and
\* stats as they were and passes no event on to the other pen; a moveTo
\* that is still pending stays pending.
C28_Step ==
    result'.raised # "" =>
        /\ result'.start_pt = result.start_pt
        /\ result'.current_pt = result.current_pt
        /\ result'.stats = result.stats
        /\ NewEvents = <<>>

C28_RaisingCallChangesNothing == [][C28_Step]_vars

\* qCurveTo with a single None has raised while a moveTo was pending, and
\* the moveTo is pending still
C28_Witness ==
    /\ ts[1]
    /\ op = "qCurveTo"
    /\ seg1 = <<None>>
    /\ result.raised = AssertFailed
    /\ result.start_pt # None
    /\ result.start_pt = result.current_pt
    /\ result.events = <<>>

-----------------------------------------------------------------------------
(* TransformPointPen: a point pen that passes what it is given on to       *)
(* another point pen, the coordinates transformed.                         *)
(*                                                                         *)
(* result is the pen: its _transformation (xx, xy, yx, yy, dx, dy) and the *)
(* calls the other pen has received; seg1 holds the calls made on the pen  *)
(* so far, and op the method called last.  An argument left out is "None". *)

MaxPointPenCalls == 3

\* fontTools.misc.transform.Transform.transformPoint((x, y))
transformPoint(t, pt) ==
    <<t[1] * pt[1] + t[3] * pt[2] + t[5], t[2] * pt[1] + t[4] * pt[2] + t[6]>>

\* fontTools.misc.transform.Transform.transform(other): other first, then
\* self
transform(self, other) ==
    <<other[1] * self[1] + other[2] * self[3],
      other[1] * self[2] + other[2] * self[4],
      other[3] * self[1] + other[4] * self[3],
      other[3] * self[2] + other[4] * self[4],
      self[1] * other[5] + self[3] * other[6] + self[5],
      self[2] * other[5] + self[4] * other[6] + self[6]>>

PointPen(transformation, events) ==
    [kind |-> "pointpen", _transformation |-> transformation, events |-> events]

\* self._outPen.<name>(*args)
ForwardPoint(p, name, args) == [p EXCEPT !.events = Append(@, Event(name, args))]

\* FilterPointPen.beginPath(identifier)
TransformPointPen_beginPath(p, identifier) ==
    ForwardPoint(p, "beginPath", <<identifier>>)

\* FilterPointPen.endPath()
TransformPointPen_endPath(p) == ForwardPoint(p, "endPath", <<>>)

TransformPointPen_addPoint(p, pt, segmentType, smooth, name, identifier) ==
    ForwardPoint(p, "addPoint",
                 <<transformPoint(p._transformation, pt), segmentType, smooth,
                   name, identifier>>)

\* a plausible slip: the pen's transformation applied first, the
\* component's after it
TransformPointPen_addComponent_reversed(p, glyphName, transformation, identifier) ==
    ForwardPoint(p, "addComponent",
                 <<glyphName, transform(transformation, p._transformation),
                   identifier>>)

TransformPointPen_addComponent(p, glyphName, transformation, identifier) ==
    ForwardPoint(p, "addComponent",
                 <<glyphName, transform(p._transformation, transformation),
                   identifier>>)

PenTransformations ==
    {<<2, 0, 0, 2, -10, 5>>, <<1, 0, 0, 1, 0, 0>>, <<0, 1, -1, 0, 3, 0>>}

ComponentTransformations == {<<1, 0, 0, 1, -10, 5>>, <<1, 2, 0, 1, 0, 4>>}

PointPenPts == {<<100, 100>>, <<-3, 7>>}

\* (segmentType, smooth, name, identifier) of an addPoint
PointAttributes ==
    {<<"line", FALSE, "None", "None">>, <<"None", FALSE, "None", "None">>,
     <<"curve", TRUE, "top", "None">>, <<"qcurve", TRUE, "None", "point-0">>}

Identifiers == {"None", "contour-0"}

InitPointPen ==
    /\ op = "none"
    /\ seg1 = <<>>
    /\ seg2 = <<>>
    /\ ts = <<>>
    /\ \E transformation \in PenTransformations :
           result = PointPen(transformation, <<>>)

CanCallPointPen == Len(seg1) < MaxPointPenCalls

CallBeginPath ==
    /\ CanCallPointPen
    /\ \E identifier \in Identifiers :
           /\ seg1' = Append(seg1, Event("beginPath", <<identifier>>))
           /\ result' = TransformPointPen_beginPath(result, identifier)
    /\ op' = "beginPath"
    /\ UNCHANGED <<seg2, ts>>

CallAddPoint ==
    /\ CanCallPointPen
    /\ \E pt \in PointPenPts, a \in PointAttributes :
           /\ seg1' = Append(seg1, Event("addPoint", <<pt>> \o a))
           /\ result' = TransformPointPen_addPoint(result, pt, a[1], a[2], a[3], a[4])
    /\ op' = "addPoint"
    /\ UNCHANGED <<seg2, ts>>

CallPointEndPath ==
    /\ CanCallPointPen
    /\ seg1' = Append(seg1, Event("endPath", <<>>))
    /\ result' = TransformPointPen_endPath(result)
    /\ op' = "endPath"
    /\ UNCHANGED <<seg2, ts>>

CallPointAddComponent ==
    /\ CanCallPointPen
    /\ \E transformation \in ComponentTransformations, identifier \in Identifiers :
           /\ seg1' = Append(seg1, Event("addComponent",
                                         <<"a", transformation, identifier>>))
           /\ result' = TransformPointPen_addComponent(result, "a", transformation,
                                                       identifier)
    /\ op' = "addComponent"
    /\ UNCHANGED <<seg2, ts>>

NextPointPen ==
    \/ CallBeginPath
    \/ CallAddPoint
    \/ CallPointEndPath
    \/ CallPointAddComponent

SpecPointPen == InitPointPen /\ [][NextPointPen]_vars

\* the place a point of the component's glyph ends up: the component's
\* transformation first, the pen's after it
PlacedByBoth(pen, component, pt) == transformPoint(pen, transformPoint(component, pt))

SamplePts == {<<0, 0>>, <<1, 0>>, <<0, 1>>}

\* what the other pen is to receive for a call
PassedOnAs(call, received, pen) ==
    /\ received.name = call.name
    /\ Len(received.args) = Len(call.args)
    /\ call.name \in {"beginPath", "endPath"} => received.args = call.args
    /\ call.name = "addPoint" =>
          /\ received.args[1] = transformPoint(pen, call.args[1])
          /\ \A i \in 2..5 : received.args[i] = call.args[i]
    /\ call.name = "addComponent" =>
          /\ received.args[1] = call.args[1]
          /\ received.args[3] = call.args[3]
          /\ received.args[2] = transform(pen, call.args[2])
          /\ \A pt \in SamplePts :
                 transformPoint(received.args[2], pt)
                     = PlacedByBoth(pen, call.args[2], pt)
          /\ (pen = <<2, 0, 0, 2, -10, 5>> /\ call.args[2] = <<1, 0, 0, 1, -10, 5>>) =>
                 received.args[2] = <<2, 0, 0, 2, -30, 15>>

\* C25: the other point pen receives one call for each beginPath, addPoint,
\* endPath and addComponent made on the pen, in the order they were made;
\* addPoint with the point transformed by the pen's transformation and
\* segmentType, smooth, name and identifier as given, addComponent with
\* self._transformation.transform(transformation), the component's
\* transformation followed by the pen's ((2, 0, 0, 2, -10, 5) and
\* (1, 0, 0, 1, -10, 5) give (2, 0, 0, 2, -30, 15)).
C25_PassesOnEachCall ==
    result.kind = "pointpen" =>
        /\ Len(result.events) = Len(seg1)
        /\ \A i \in 1..Len(seg1) :
               PassedOnAs(seg1[i], result.events[i], result._transformation)

\* the calls of the docstring: a point and then a component, on the pen
\* that scales by two
C25_Witness ==
    /\ result.kind = "pointpen"
    /\ result._transformation = <<2, 0, 0, 2, -10, 5>>
    /\ Len(seg1) = 3
    /\ seg1[2] = Event("addPoint", <<<<100, 100>>, "line", FALSE, "None", "None">>)
    /\ result.events[2].args[1] = <<190, 205>>
    /\ seg1[3] = Event("addComponent", <<"a", <<1, 0, 0, 1, -10, 5>>, "contour-0">>)
    /\ result.events[3].args[2] = <<2, 0, 0, 2, -30, 15>>

-----------------------------------------------------------------------------
(* solveCubic: which branch is taken, close to epsilon.                    *)
(*                                                                         *)
(* R*R and Q*Q*Q next to epsilon = 1e-10 have no 32-bit rational, so here  *)
(* they are counted in units of epsilon / EpsilonUnits.  ts is             *)
(* (R*R, Q*Q*Q) as computed at l.665-666: R*R is any number >= 0 and Q*Q*Q *)
(* any number, of the sign of Q.  result is the branch l.668-699 takes     *)
(* with the snapped values, or what its square roots and division raise.   *)

EpsilonUnits == 4
MaxUnits == 12

\* R2 = 0 if R2 < epsilon else R2
SnappedR2(R2) == IF R2 < EpsilonUnits THEN 0 ELSE R2

\* Q3 = 0 if abs(Q3) < epsilon else Q3
SnappedQ3(Q3) == IF IAbs(Q3) < EpsilonUnits THEN 0 ELSE Q3

\* a plausible slip: R2_Q3 <= epsilon, without the .5
TakesThreeRoots_wholeEpsilon(R2_Q3) == R2_Q3 <= EpsilonUnits

\* R2_Q3 <= epsilon * .5
TakesThreeRoots(R2_Q3) == 2 * R2_Q3 <= EpsilonUnits

\* theta = acos(max(min(R/sqrt(Q3), 1.0), -1.0)); rQ2 = -2.0*sqrt(Q): sqrt
\* of a negative number raises ValueError, division by 0.0
\* ZeroDivisionError
ThreeRootsBranch(R2, Q3) ==
    IF Q3 < 0 THEN Raised("ValueError")
    ELSE IF Q3 = 0 THEN Raised("ZeroDivisionError")
    ELSE Returned([branch |-> "three real roots", R2 |-> R2, Q3 |-> Q3])

solveCubicBranch(R2, Q3) ==
    IF R2 = 0 /\ Q3 = 0
    THEN Returned([branch |-> "triple root", R2 |-> R2, Q3 |-> Q3])
    ELSE IF TakesThreeRoots(R2 - Q3) THEN ThreeRootsBranch(R2, Q3)
    ELSE Returned([branch |-> "one real root", R2 |-> R2, Q3 |-> Q3])

InitBranch ==
    /\ op = "none"
    /\ seg1 = <<>>
    /\ seg2 = <<>>
    /\ ts \in (0..MaxUnits) \X (-MaxUnits..MaxUnits)
    /\ result = Returned(<<>>)

\* solveCubic(a, b, c, d) with abs(a) >= epsilon, from l.668 on
CallSolveCubicBranch ==
    /\ op = "none"
    /\ op' = "solveCubic"
    /\ result' = solveCubicBranch(SnappedR2(ts[1]), SnappedQ3(ts[2]))
    /\ UNCHANGED <<seg1, seg2, ts>>

NextBranch == CallSolveCubicBranch

SpecBranch == InitBranch /\ [][NextBranch]_vars

\* C29: when solveCubic takes the branch of three real roots (not the
\* triple root, and snapped R2 - Q3 <= epsilon/2), the snapped Q3 is
\* strictly positive; its square root, the square root of Q and the
\* division by sqrt(Q3) raise nothing.  In every other case the branch is
\* not entered.
C29_Q3Positive ==
    op = "solveCubic" =>
        /\ result.kind = "ok"
        /\ result.val.branch = "three real roots" =>
              /\ result.val.Q3 >= EpsilonUnits
              /\ ts[2] > 0
        /\ (ts[2] < EpsilonUnits /\ ts[1] >= EpsilonUnits) =>
              result.val.branch = "one real root"

\* the branch taken at its edge: R2 - Q3 = epsilon/2 exactly, and Q3 is
\* more than epsilon
C29_Witness ==
    /\ op = "solveCubic"
    /\ result.kind = "ok"
    /\ result.val.branch = "three real roots"
    /\ 2 * (result.val.R2 - result.val.Q3) = EpsilonUnits
    /\ result.val.R2 > 0

-----------------------------------------------------------------------------
(* calcQuadraticArcLengthC in doubles, on control points far from each     *)
(* other.                                                                  *)
(*                                                                         *)
(* A coordinate is (m, k) for m * ArcBase + k, ArcBase being 3 * 2^51: the *)
(* integers up to 2^53 are doubles, so the sums and differences here are   *)
(* exact.  A quotient by y is rounded to the doubles at ArcBase / |y|,     *)
(* which lie 1/QuotientDensity(y) apart.  seg1 is (pt1, pt2, pt3) with     *)
(* pt1 = (-(ArcBase + k), -y), pt2 = (0, 0), pt3 = (ArcBase + k + 1, y).   *)

MaxArcOffset == 11

ArcDivisors == {-6, -4, -3, -2, -1, 0, 1, 2, 3, 4, 6}

Far(m, k) == <<m, k>>

FarSub(a, b) == <<a[1] - b[1], a[2] - b[2]>>

FarAdd(a, b) == <<a[1] + b[1], a[2] + b[2]>>

\* s * a for a small integer s
FarTimes(s, a) == <<s * a[1], s * a[2]>>

FarPtSub(p, q) == <<FarSub(p[1], q[1]), FarSub(p[2], q[2])>>

\* _dot(v1, v2) for v1 of small integers
FarDot(v1, v2) == FarAdd(FarTimes(v1[1], v2[1]), FarTimes(v1[2], v2[2]))

\* the doubles next to ArcBase / |y| are 1 / QuotientDensity(y) apart
QuotientDensity(y) ==
    IF IAbs(y) = 1 THEN 1 ELSE IF IAbs(y) \in {2, 3} THEN 2 ELSE 4

\* a / y in doubles, a being ArcBase + k or a small integer: (m, q) for
\* m * ArcBase / y + q
FarQuotient(a, y) ==
    IF a[1] = 0 THEN <<0, Rat(a[2], y)>>
    ELSE <<a[1], Rat(RoundHalfEven(Rat(a[2] * QuotientDensity(y), y)),
                     QuotientDensity(y))>>

\* l.153-167, the lengths themselves left out: what is returned is the
\* branch taken and the numbers it divides by
FarQuadraticArcLengthC(pt1, pt2, pt3) ==
    LET d0 == FarPtSub(pt2, pt1)
        d1 == FarPtSub(pt3, pt2)
        d == FarPtSub(d1, d0)
        n == <<-d[2][2], d[1][2]>>
        scale2 == n[1] * n[1] + n[2] * n[2]
        origDist == FarDot(n, d0)
        x0 == FarQuotient(FarDot(<<d[1][2], d[2][2]>>, d0), origDist[2])
        x1 == FarQuotient(FarDot(<<d[1][2], d[2][2]>>, d1), origDist[2])
    IN  IF scale2 = 0 THEN Returned([branch |-> "chord"])
        ELSE IF origDist = Far(0, 0)
        THEN IF d0[1][1] * d1[1][1] >= 0   \* the sign of _dot(d0, d1)
             THEN Returned([branch |-> "chord"])
             ELSE Returned([branch |-> "cusp"])
        ELSE IF RSub(x1[2], x0[2]) = Zero /\ x1[1] = x0[1]
        THEN Raised("ZeroDivisionError")
        ELSE Returned([branch |-> "general", origDist |-> origDist[2],
                       scale2 |-> scale2, x1_x0 |-> RSub(x1[2], x0[2])])

InitFarArc ==
    /\ op = "none"
    /\ seg2 = <<>>
    /\ ts = <<>>
    /\ \E k \in 0..MaxArcOffset, y \in ArcDivisors :
           seg1 = << <<Far(-1, -k), Far(0, -y)>>,
                     <<Far(0, 0), Far(0, 0)>>,
                     <<Far(1, k + 1), Far(0, y)>> >>
    /\ result = Returned(<<>>)

\* calcQuadraticArcLength(pt1, pt2, pt3)
CallFarQuadraticArcLength ==
    /\ op = "none"
    /\ op' = "calcQuadraticArcLength"
    /\ result' = FarQuadraticArcLengthC(seg1[1], seg1[2], seg1[3])
    /\ UNCHANGED <<seg1, seg2, ts>>

NextFarArc == CallFarQuadraticArcLength

SpecFarArc == InitFarArc /\ [][NextFarArc]_vars

\* C30: calcQuadraticArcLengthC divides by zero for no three finite control
\* points: where it takes the general branch, origDist, scale and x1 - x0
\* are not zero, x1 - x0 being scale^2 / origDist.
C30_NeverDividesByZero ==
    op = "calcQuadraticArcLength" =>
        /\ result.kind = "ok"
        /\ result.val.branch = "general" =>
              /\ result.val.origDist # 0
              /\ result.val.scale2 # 0
              /\ result.val.x1_x0 # Zero

=============================================================================
